---- MODULE Spec2Model ----
(***************************************************************************)
(* Model of the ontology-driven validation core of the literature         *)
(* explorer backend: the validation result models                         *)
(* (app/models/validation.py), the schema mapper                          *)
(* (app/services/schema_mapper.py) and the response validator             *)
(* (app/services/response_validator.py).                                  *)
(*                                                                         *)
(* Strings are sequences of symbols.  A symbol is one character ("Q",      *)
(* "4", "-", "#", "/") or an opaque run of characters that contains none   *)
(* of the characters the code inspects one by one (a namespace body such   *)
(* as "http://www.wikidata.org/entity", a word such as "birthDate").       *)
(* Optional values (str | None) are sequences of length at most one:       *)
(* None is << >> and a value v is << v >>.  Python dicts are sequences of  *)
(* << key, value >> pairs with distinct keys, in insertion order.          *)
(***************************************************************************)
EXTENDS Integers, Sequences, FiniteSets, TLC

\* ------------------------------------------------------------------ bounds
MaxIssues == 4

MaxFields == 2

MaxBatch == 2

\* The number of SchemaInfo objects a behaviour constructs.
MaxExtractions == 2

\* ------------------------------------------------------- optional values
None == << >>

Some(v) == << v >>

IsNone(o) == o = << >>

\* ------------------------------------------------------------ Python dict
DictKeys(d) == { d[i][1] : i \in 1..Len(d) }

DictHas(d, k) == \E i \in 1..Len(d) : d[i][1] = k

DictGet(d, k) == d[CHOOSE i \in 1..Len(d) : d[i][1] = k][2]

DictSet(d, k, v) ==
    IF DictHas(d, k)
    THEN [ i \in 1..Len(d) |-> IF d[i][1] = k THEN << k, v >> ELSE d[i] ]
    ELSE Append(d, << k, v >>)

\* ---------------------------------------------------------------- symbols
Digits == { "0", "1", "2", "3", "4", "5", "6", "7", "8", "9" }

IsDigits(s) == \A i \in 1..Len(s) : s[i] \in Digits

DigitVal(c) ==
    CASE c = "0" -> 0 [] c = "1" -> 1 [] c = "2" -> 2 [] c = "3" -> 3
      [] c = "4" -> 4 [] c = "5" -> 5 [] c = "6" -> 6 [] c = "7" -> 7
      [] c = "8" -> 8 [] c = "9" -> 9

DigitChar(n) ==
    CASE n = 0 -> "0" [] n = 1 -> "1" [] n = 2 -> "2" [] n = 3 -> "3"
      [] n = 4 -> "4" [] n = 5 -> "5" [] n = 6 -> "6" [] n = 7 -> "7"
      [] n = 8 -> "8" [] n = 9 -> "9"

RECURSIVE NumVal(_)
NumVal(s) ==
    IF Len(s) = 0 THEN 0
    ELSE 10 * NumVal(SubSeq(s, 1, Len(s) - 1)) + DigitVal(s[Len(s)])

RECURSIVE NatToStr(_)
NatToStr(n) ==
    IF n < 10 THEN << DigitChar(n) >>
    ELSE Append(NatToStr(n \div 10), DigitChar(n % 10))

IntToStr(n) == IF n < 0 THEN << "-" >> \o NatToStr(0 - n) ELSE NatToStr(n)

\* ------------------------------------------------------------- namespaces
LIT == << "http:", "/", "/", "literature-explorer.org", "/", "ontology", "#" >>

WD == << "http:", "/", "/", "www.wikidata.org", "/", "entity", "/" >>

WDT == << "http:", "/", "/", "www.wikidata.org", "/", "prop", "/", "direct", "/" >>

XSD == << "http:", "/", "/", "www.w3.org", "/", "2001", "/", "XMLSchema", "#" >>

FOAF == << "http:", "/", "/", "xmlns.com", "/", "foaf", "/", "0.1", "/" >>

\* ------------------------------------------------- ontology query results
\* One row of the class query and of the property query of the schema
\* mapper, as OntologyService.query returns them: a bound variable carries
\* its string value, an unbound OPTIONAL variable is None.
ClassRow(uri, equivalent, label, parent) ==
    [ class |-> uri, equivalent |-> equivalent, label |-> label, parent |-> parent ]

PropertyRow(uri, equivalent, type, domain, range, label) ==
    [ property |-> uri, equivalent |-> equivalent, type |-> type,
      domain |-> domain, range |-> range, label |-> label ]

Q_Author == << "Q", "4", "8", "2", "9", "8", "0" >>

Q_Work == << "Q", "7", "7", "2", "5", "6", "3", "4" >>

Q_Novelist == << "Q", "6", "6", "2", "5", "9", "6", "3" >>

\* The literature ontology: Author and LiteraryWork with their properties.
OntologyPlain ==
    [ class_rows |-> <<
        ClassRow(LIT \o << "Author" >>, WD \o Q_Author,
                 Some(<< "Author" >>), Some(FOAF \o << "Person" >>)),
        ClassRow(LIT \o << "LiteraryWork" >>, WD \o Q_Work,
                 Some(<< "Literary Work" >>), None) >>,
      property_rows |-> <<
        PropertyRow(LIT \o << "birthDate" >>, WDT \o << "P", "5", "6", "9" >>,
                    << "DatatypeProperty" >>, Some(LIT \o << "Author" >>),
                    Some(XSD \o << "date" >>), Some(<< "birth date" >>)),
        PropertyRow(LIT \o << "birthPlace" >>, WDT \o << "P", "1", "9" >>,
                    << "ObjectProperty" >>, Some(LIT \o << "Author" >>),
                    Some(LIT \o << "Location" >>), Some(<< "birth place" >>)),
        PropertyRow(LIT \o << "writtenBy" >>, WDT \o << "P", "5", "0" >>,
                    << "ObjectProperty" >>, Some(LIT \o << "LiteraryWork" >>),
                    Some(LIT \o << "Author" >>), Some(<< "written by" >>)),
        PropertyRow(LIT \o << "pageCount" >>, WDT \o << "P", "1", "1", "0", "4" >>,
                    << "DatatypeProperty" >>, Some(LIT \o << "LiteraryWork" >>),
                    Some(XSD \o << "integer" >>), None),
        PropertyRow(LIT \o << "name" >>, WDT \o << "P", "1", "4", "7", "7" >>,
                    << "DatatypeProperty" >>, None,
                    Some(XSD \o << "string" >>), None) >>,
      subclass |-> { << LIT \o << "Author" >>, FOAF \o << "Person" >> >> } ]

\* The same ontology with a subclass chain below Author whose classes own
\* properties, a property with two labels (two rows of the property query)
\* and a class without any property.
OntologySubclass ==
    [ class_rows |-> <<
        ClassRow(LIT \o << "Author" >>, WD \o Q_Author,
                 Some(<< "Author" >>), None),
        ClassRow(LIT \o << "Novelist" >>, WD \o Q_Novelist,
                 None, Some(LIT \o << "Writer" >>)),
        ClassRow(LIT \o << "Genre" >>, WD \o << "Q", "4", "8", "3", "3", "9", "4" >>,
                 None, None) >>,
      property_rows |-> <<
        PropertyRow(LIT \o << "birthDate" >>, WDT \o << "P", "5", "6", "9" >>,
                    << "DatatypeProperty" >>, Some(LIT \o << "Author" >>),
                    Some(XSD \o << "date" >>), Some(<< "birth date" >>)),
        PropertyRow(LIT \o << "birthDate" >>, WDT \o << "P", "5", "6", "9" >>,
                    << "DatatypeProperty" >>, Some(LIT \o << "Author" >>),
                    Some(XSD \o << "date" >>), Some(<< "date of birth" >>)),
        PropertyRow(LIT \o << "debutNovel" >>, WDT \o << "P", "8", "0", "0" >>,
                    << "ObjectProperty" >>, Some(LIT \o << "Novelist" >>),
                    Some(LIT \o << "LiteraryWork" >>), None),
        PropertyRow(LIT \o << "penName" >>, WDT \o << "P", "7", "4", "2" >>,
                    << "DatatypeProperty" >>, Some(LIT \o << "Writer" >>),
                    None, None) >>,
      subclass |-> { << LIT \o << "Novelist" >>, LIT \o << "Writer" >> >>,
                     << LIT \o << "Writer" >>, LIT \o << "Author" >> >> } ]

Ontologies == { OntologyPlain, OntologySubclass }

\* An ontology whose identifiers are shared: two classes with one Wikidata
\* entity, a class with two Wikidata equivalents, two properties with one
\* Wikidata property, a property whose local name is that of a class, and
\* an equivalent class in the entity namespace that is no Q-number.
OntologyShared ==
    [ class_rows |-> <<
        ClassRow(LIT \o << "Author" >>, WD \o Q_Author,
                 Some(<< "Author" >>), None),
        ClassRow(LIT \o << "Writer" >>, WD \o Q_Author,
                 None, Some(LIT \o << "Author" >>)),
        ClassRow(LIT \o << "Author" >>, WD \o << "Q", "3", "6", "1", "8", "0" >>,
                 Some(<< "Author" >>), None),
        ClassRow(LIT \o << "Genre" >>, WD \o << "Q", "4", "8", "3", "3", "9", "4" >>,
                 None, None),
        ClassRow(LIT \o << "Movement" >>, WD \o << "literary_movement" >>,
                 None, None) >>,
      property_rows |-> <<
        PropertyRow(LIT \o << "birthDate" >>, WDT \o << "P", "5", "6", "9" >>,
                    << "DatatypeProperty" >>, Some(LIT \o << "Author" >>),
                    Some(XSD \o << "date" >>), None),
        PropertyRow(LIT \o << "dateOfBirth" >>, WDT \o << "P", "5", "6", "9" >>,
                    << "DatatypeProperty" >>, Some(LIT \o << "Writer" >>),
                    Some(XSD \o << "date" >>), None),
        PropertyRow(FOAF \o << "Genre" >>, WDT \o << "P", "1", "3", "6" >>,
                    << "ObjectProperty" >>, None,
                    Some(LIT \o << "Genre" >>), None) >>,
      subclass |-> { << LIT \o << "Writer" >>, LIT \o << "Author" >> >> } ]

\* The ontologies the mapper is exercised on.
MapperOntologies == Ontologies \cup { OntologyShared }

\* ------------------------------------------------------- schema mapper
\* SchemaMapper._extract_local_name: the part after the last "#", or after
\* the last "/" when the URI holds no "#".
LastIndexOf(s, c) ==
    IF \E i \in 1..Len(s) : s[i] = c
    THEN CHOOSE i \in 1..Len(s) : s[i] = c /\ \A j \in (i + 1)..Len(s) : s[j] # c
    ELSE 0

_extract_local_name(uri) ==
    IF \E i \in 1..Len(uri) : uri[i] = "#"
    THEN SubSeq(uri, LastIndexOf(uri, "#") + 1, Len(uri))
    ELSE SubSeq(uri, LastIndexOf(uri, "/") + 1, Len(uri))

\* re.search(letter + r'\d+$', uri): the trailing run of digits, when it is
\* not empty and the letter stands right before it; "" otherwise.
TrailingDigits(s) ==
    CHOOSE k \in 0..Len(s) :
        /\ \A i \in (Len(s) - k + 1)..Len(s) : s[i] \in Digits
        /\ (k < Len(s) => s[Len(s) - k] \notin Digits)

ExtractIdWithLetter(uri, letter) ==
    LET k == TrailingDigits(uri)
    IN  IF k >= 1 /\ k < Len(uri) /\ uri[Len(uri) - k] = letter
        THEN SubSeq(uri, Len(uri) - k, Len(uri))
        ELSE << >>

_extract_wikidata_id(uri) == ExtractIdWithLetter(uri, "Q")

_extract_wikidata_property_id(uri) == ExtractIdWithLetter(uri, "P")

\* SchemaMapper._extract_class_mappings: one ClassMapping per row with a
\* non-empty class and equivalent.
ClassMapping(row) ==
    [ ontology_uri |-> row.class,
      ontology_local |-> _extract_local_name(row.class),
      wikidata_uri |-> row.equivalent,
      wikidata_id |-> _extract_wikidata_id(row.equivalent),
      label |-> row.label,
      parent_class |-> row.parent ]

_extract_class_mappings(rows) ==
    LET keep == SelectSeq(rows, LAMBDA r : r.class # << >> /\ r.equivalent # << >>)
    IN  [ i \in 1..Len(keep) |-> ClassMapping(keep[i]) ]

PropertyMapping(row) ==
    [ ontology_uri |-> row.property,
      ontology_local |-> _extract_local_name(row.property),
      wikidata_uri |-> row.equivalent,
      wikidata_id |-> _extract_wikidata_property_id(row.equivalent),
      property_type |-> row.type,
      domain |-> row.domain,
      range |-> row.range,
      label |-> row.label ]

_extract_property_mappings(rows) ==
    LET keep == SelectSeq(rows, LAMBDA r : r.property # << >> /\ r.equivalent # << >>)
    IN  [ i \in 1..Len(keep) |-> PropertyMapping(keep[i]) ]

\* The index loops without the entry keyed by the local name.
RECURSIVE BuildIndexes_no_local(_, _, _)
BuildIndexes_no_local(cms, w2o, o2w) ==
    IF Len(cms) = 0 THEN << w2o, o2w >>
    ELSE LET cm == Head(cms)
         IN  BuildIndexes_no_local(Tail(cms),
                 DictSet(w2o, cm.wikidata_id, cm.ontology_uri),
                 DictSet(o2w, cm.ontology_uri, cm.wikidata_id))

\* The index loops of extract_mappings: a later mapping overwrites an
\* earlier one under the same key.
RECURSIVE BuildIndexes(_, _, _)
BuildIndexes(cms, w2o, o2w) ==
    IF Len(cms) = 0 THEN << w2o, o2w >>
    ELSE LET cm == Head(cms)
         IN  BuildIndexes(Tail(cms),
                 DictSet(w2o, cm.wikidata_id, cm.ontology_uri),
                 DictSet(DictSet(o2w, cm.ontology_uri, cm.wikidata_id),
                         cm.ontology_local, cm.wikidata_id))

\* SchemaMapper.extract_mappings, the extraction branch.
SchemaInfo(onto) ==
    LET cms == _extract_class_mappings(onto.class_rows)
        pms == _extract_property_mappings(onto.property_rows)
        ci == BuildIndexes(cms, << >>, << >>)
        pi == BuildIndexes(pms, << >>, << >>)
    IN  [ class_mappings |-> cms,
          property_mappings |-> pms,
          class_count |-> Len(cms),
          property_count |-> Len(pms),
          wikidata_to_ontology_class |-> ci[1],
          ontology_to_wikidata_class |-> ci[2],
          wikidata_to_ontology_property |-> pi[1],
          ontology_to_wikidata_property |-> pi[2] ]

\* The test at the head of extract_mappings answering always no.
CacheHit_never(cache, force_refresh) == FALSE

\* The test at the head of extract_mappings: a SchemaInfo is cached and no
\* refresh is forced.
CacheHit(cache, force_refresh) == ~IsNone(cache) /\ ~force_refresh

\* extract_mappings(force_refresh = False): the memoized SchemaInfo when
\* there is one, a fresh extraction otherwise.  cache is the mapper's
\* _schema_info (None or Some(SchemaInfo)).
extract_mappings(cache, onto) ==
    IF ~IsNone(cache) THEN cache[1] ELSE SchemaInfo(onto)

\* MatchesMapping that leaves the full Wikidata URI out.
MatchesMapping_no_wikidata_uri(m, identifier) ==
    identifier \in { m.ontology_local, m.ontology_uri, m.wikidata_id }

\* get_class_mapping / get_property_mapping: the first mapping one of whose
\* four identifier fields equals the identifier; None when there is none.
MatchesMapping(m, identifier) ==
    identifier \in { m.ontology_local, m.ontology_uri, m.wikidata_id, m.wikidata_uri }

FirstMatch(mappings, identifier) ==
    IF \E i \in 1..Len(mappings) : MatchesMapping(mappings[i], identifier)
    THEN Some(mappings[CHOOSE i \in 1..Len(mappings) :
                  /\ MatchesMapping(mappings[i], identifier)
                  /\ \A j \in 1..(i - 1) : ~MatchesMapping(mappings[j], identifier)])
    ELSE None

get_class_mapping(schema, identifier) == FirstMatch(schema.class_mappings, identifier)

get_property_mapping(schema, identifier) == FirstMatch(schema.property_mappings, identifier)

\* _is_subclass_of: equality, or the ASK query sub rdfs:subClassOf+ super
\* over the ontology graph.
RECURSIVE Reaches(_, _, _, _)
Reaches(edges, from, to, fuel) ==
    IF fuel = 0 THEN FALSE
    ELSE \E e \in edges :
            /\ e[1] = from
            /\ (e[2] = to \/ Reaches(edges, e[2], to, fuel - 1))

\* _is_subclass_of asking for a direct rdfs:subClassOf triple only.
_is_subclass_of_direct(onto, sub, super) ==
    \/ sub = super
    \/ << sub, super >> \in onto.subclass

_is_subclass_of(onto, sub, super) ==
    \/ sub = super
    \/ Reaches(onto.subclass, sub, super, Cardinality(onto.subclass))

\* get_properties_for_class
get_properties_for_class(schema, onto, identifier) ==
    LET cm == get_class_mapping(schema, identifier)
    IN  IF IsNone(cm) THEN << >>
        ELSE SelectSeq(schema.property_mappings,
                 LAMBDA pm : /\ ~IsNone(pm.domain)
                             /\ pm.domain[1] # << >>
                             /\ \/ pm.domain[1] = cm[1].ontology_uri
                                \/ _is_subclass_of(onto, pm.domain[1], cm[1].ontology_uri))

\* get_expected_properties_for_class marking every property required.
PropertyInfo_Required(pm) ==
    [ wikidata_property |-> pm.wikidata_id,
      property_type |-> pm.property_type,
      range |-> pm.range,
      label |-> pm.label,
      required |-> TRUE ]

\* get_expected_properties_for_class: a dict keyed by local name.
PropertyInfo(pm) ==
    [ wikidata_property |-> pm.wikidata_id,
      property_type |-> pm.property_type,
      range |-> pm.range,
      label |-> pm.label,
      required |-> FALSE ]

RECURSIVE InfoDict(_, _)
InfoDict(pms, acc) ==
    IF Len(pms) = 0 THEN acc
    ELSE InfoDict(Tail(pms), DictSet(acc, Head(pms).ontology_local, PropertyInfo(Head(pms))))

get_expected_properties_for_class(schema, onto, identifier) ==
    IF IsNone(get_class_mapping(schema, identifier)) THEN << >>
    ELSE InfoDict(get_properties_for_class(schema, onto, identifier), << >>)

\* translate_from_wikidata: the class mappings first, then the property
\* mappings; the local name, or None.
translate_from_wikidata(schema, identifier) ==
    LET cm == get_class_mapping(schema, identifier)
        pm == get_property_mapping(schema, identifier)
    IN  IF ~IsNone(cm) THEN Some(cm[1].ontology_local)
        ELSE IF ~IsNone(pm) THEN Some(pm[1].ontology_local)
        ELSE None

\* translate_to_wikidata trying the property mappings first.
translate_to_wikidata_property_first(schema, identifier) ==
    LET cm == get_class_mapping(schema, identifier)
        pm == get_property_mapping(schema, identifier)
    IN  IF ~IsNone(pm) THEN Some(pm[1].wikidata_id)
        ELSE IF ~IsNone(cm) THEN Some(cm[1].wikidata_id)
        ELSE None

\* translate_to_wikidata: the class mappings first, then the property
\* mappings; the Wikidata id, or None.
translate_to_wikidata(schema, identifier) ==
    LET cm == get_class_mapping(schema, identifier)
        pm == get_property_mapping(schema, identifier)
    IN  IF ~IsNone(cm) THEN Some(cm[1].wikidata_id)
        ELSE IF ~IsNone(pm) THEN Some(pm[1].wikidata_id)
        ELSE None

\* ------------------------------------------------------------ JSON values
\* A value of the data mapping: null, a string, an integer, a mapping or a
\* list, as a pair << Python type, value >>.
VNone == << "none", << >> >>

VStr(s) == << "str", s >>

VInt(n) == << "int", n >>

VDict(d) == << "dict", d >>

VList(l) == << "list", l >>

\* bool(value)
Truthy(x) ==
    CASE x[1] = "none" -> FALSE
      [] x[1] = "str" -> Len(x[2]) > 0
      [] x[1] = "int" -> x[2] # 0
      [] x[1] = "dict" -> Len(x[2]) > 0
      [] x[1] = "list" -> Len(x[2]) > 0

\* str(value): a mapping prints between braces and a list between
\* brackets; the text between them is opaque.
PyStr(x) ==
    CASE x[1] = "none" -> << "None" >>
      [] x[1] = "str" -> x[2]
      [] x[1] = "int" -> IntToStr(x[2])
      [] x[1] = "dict" -> << "{", "..", "}" >>
      [] x[1] = "list" -> << "[", "..", "]" >>

\* dict.get(key) and dict.get(key, default) on a value of kind dict
ValueGet(x, key, default) == IF DictHas(x[2], key) THEN DictGet(x[2], key) ELSE default

\* ------------------------------------------------------ regular expressions
\* "$" matches at the end of the string and before a final newline.
BeforeDollar(s) ==
    IF Len(s) > 0 /\ s[Len(s)] = "\n" THEN SubSeq(s, 1, Len(s) - 1) ELSE s

DropSign(s) == IF Len(s) > 0 /\ s[1] = "-" THEN Tail(s) ELSE s

\* ^Q\d+$
QID_PATTERN(s) ==
    LET t == BeforeDollar(s)
    IN  Len(t) >= 2 /\ t[1] = "Q" /\ IsDigits(Tail(t))

\* ^http://www\.wikidata\.org/entity/(Q\d+)$
WIKIDATA_URI_PATTERN(s) ==
    /\ Len(s) > Len(WD)
    /\ SubSeq(s, 1, Len(WD)) = WD
    /\ QID_PATTERN(SubSeq(s, Len(WD) + 1, Len(s)))

\* \d{4}-\d{2}-\d{2} at the start of s
StartsYMD(s) ==
    /\ Len(s) >= 10
    /\ IsDigits(SubSeq(s, 1, 4)) /\ s[5] = "-"
    /\ IsDigits(SubSeq(s, 6, 7)) /\ s[8] = "-"
    /\ IsDigits(SubSeq(s, 9, 10))

\* ^\d{4}-\d{2}-\d{2}$
MatchFullDate(s) == LET t == BeforeDollar(s) IN Len(t) = 10 /\ StartsYMD(t)

\* ^\d{4}-\d{2}$
MatchYearMonth(s) ==
    LET t == BeforeDollar(s)
    IN  Len(t) = 7 /\ IsDigits(SubSeq(t, 1, 4)) /\ t[5] = "-" /\ IsDigits(SubSeq(t, 6, 7))

\* ^-?\d{4}$
MatchYear(s) == LET t == DropSign(BeforeDollar(s)) IN Len(t) = 4 /\ IsDigits(t)

\* ^\d{4}-\d{2}-\d{2}T\d{2}:\d{2}:\d{2}
MatchDateTime(s) ==
    /\ Len(s) >= 19 /\ StartsYMD(s) /\ s[11] = "T"
    /\ IsDigits(SubSeq(s, 12, 13)) /\ s[14] = ":"
    /\ IsDigits(SubSeq(s, 15, 16)) /\ s[17] = ":"
    /\ IsDigits(SubSeq(s, 18, 19))

\* ^-?\d+$
MatchInteger(s) == LET t == DropSign(BeforeDollar(s)) IN Len(t) >= 1 /\ IsDigits(t)

\* ^-?\d+\.?\d*$
MatchDecimal(s) ==
    LET t == DropSign(BeforeDollar(s))
    IN  \E n \in 1..Len(t) :
            /\ IsDigits(SubSeq(t, 1, n))
            /\ \/ IsDigits(SubSeq(t, n + 1, Len(t)))
               \/ n < Len(t) /\ t[n + 1] = "." /\ IsDigits(SubSeq(t, n + 2, Len(t)))

\* ^(true|false|0|1)$
MatchBoolean(s) == BeforeDollar(s) \in { << "true" >>, << "false" >>, << "0" >>, << "1" >> }

\* ResponseValidator.DATATYPE_PATTERNS
DATATYPE_PATTERNS_keys ==
    { XSD \o << "date" >>, XSD \o << "dateTime" >>, XSD \o << "gYear" >>,
      XSD \o << "integer" >>, XSD \o << "decimal" >>, XSD \o << "boolean" >>,
      XSD \o << "string" >> }

\* DATATYPE_PATTERNS whose xsd:date pattern also admits a bare year.
DATATYPE_PATTERNS_date_admits_year(range, s) ==
    CASE range = XSD \o << "date" >> -> MatchFullDate(s) \/ MatchYear(s)
      [] range = XSD \o << "dateTime" >> -> MatchDateTime(s)
      [] range = XSD \o << "gYear" >> -> MatchYear(s)
      [] range = XSD \o << "integer" >> -> MatchInteger(s)
      [] range = XSD \o << "decimal" >> -> MatchDecimal(s)
      [] range = XSD \o << "boolean" >> -> MatchBoolean(s)
      [] range = XSD \o << "string" >> -> TRUE

DATATYPE_PATTERNS(range, s) ==
    CASE range = XSD \o << "date" >> -> MatchFullDate(s)
      [] range = XSD \o << "dateTime" >> -> MatchDateTime(s)
      [] range = XSD \o << "gYear" >> -> MatchYear(s)
      [] range = XSD \o << "integer" >> -> MatchInteger(s)
      [] range = XSD \o << "decimal" >> -> MatchDecimal(s)
      [] range = XSD \o << "boolean" >> -> MatchBoolean(s)
      [] range = XSD \o << "string" >> -> TRUE

\* "date" in range.lower() and "integer" in range.lower(), decided on the
\* symbols that lower-case to a word holding the substring.
RangeHasDate(range) == \E i \in 1..Len(range) : range[i] \in { "date", "dateTime", "Date" }

RangeHasInteger(range) ==
    \E i \in 1..Len(range) : range[i] \in { "integer", "nonNegativeInteger", "Integer" }

\* ---------------------------------------------------------------- issues
ValidationIssue(type, severity, field) == [ type |-> type, severity |-> severity, field |-> field ]

ValidationSeverity == { "error", "warning", "info" }

ValidationType ==
    { "missing_required", "type_mismatch", "invalid_range", "unknown_property",
      "cardinality", "format", "domain_violation", "range_violation" }

\* ---------------------------------------------------- datetime.strptime
DaysInMonth(y, m) ==
    IF m = 2
    THEN (IF (y % 4 = 0 /\ y % 100 # 0) \/ y % 400 = 0 THEN 29 ELSE 28)
    ELSE IF m \in { 4, 6, 9, 11 } THEN 30 ELSE 31

ValidYMD(y, m, d) == y >= 1 /\ m \in 1..12 /\ d \in 1..DaysInMonth(y, m)

\* strptime succeeds when the whole string is consumed and the fields name
\* a calendar day; the string is known to match the pattern of the format.
StrptimeFullDate(s) ==
    /\ Len(s) = 10
    /\ ValidYMD(NumVal(SubSeq(s, 1, 4)), NumVal(SubSeq(s, 6, 7)), NumVal(SubSeq(s, 9, 10)))

StrptimeYearMonth(s) ==
    Len(s) = 7 /\ ValidYMD(NumVal(SubSeq(s, 1, 4)), NumVal(SubSeq(s, 6, 7)), 1)

StrptimeYear(s) == Len(s) = 4 /\ ValidYMD(NumVal(s), 1, 1)

\* _validate_date_value when a text that matches a pattern always parses.
DateParsed_no_strptime(s) == MatchFullDate(s) \/ MatchYearMonth(s) \/ MatchYear(s)

\* ------------------------------------------------------ value validation
\* ResponseValidator._validate_date_value: the three patterns in order; a
\* matching pattern parses when the string starts with "-" or strptime
\* accepts it.  The patterns exclude each other, so at most one is tried.
DateParsed(s) ==
    \/ MatchFullDate(s) /\ StrptimeFullDate(s)
    \/ MatchYearMonth(s) /\ StrptimeYearMonth(s)
    \/ MatchYear(s) /\ (s[1] = "-" \/ StrptimeYear(s))

_validate_date_value(field, value) ==
    LET s == PyStr(value)
    IN  IF ~DateParsed(s) /\ Len(s) > 0
        THEN << ValidationIssue("format", "warning", field) >>
        ELSE << >>

\* int(text): surrounding white space is dropped, a sign may precede the
\* digits.
RECURSIVE StripLeft(_)
StripLeft(s) ==
    IF Len(s) > 0 /\ s[1] \in { " ", "\n" } THEN StripLeft(Tail(s)) ELSE s

RECURSIVE StripRight(_)
StripRight(s) ==
    IF Len(s) > 0 /\ s[Len(s)] \in { " ", "\n" }
    THEN StripRight(SubSeq(s, 1, Len(s) - 1)) ELSE s

IntParses(s) ==
    LET t == StripRight(StripLeft(s))
        u == IF Len(t) > 0 /\ t[1] \in { "-", "+" } THEN Tail(t) ELSE t
    IN  Len(u) >= 1 /\ IsDigits(u)

\* ResponseValidator._validate_integer_value
_validate_integer_value(field, value) ==
    IF value[1] # "int" /\ ~IntParses(PyStr(value))
    THEN << ValidationIssue("type_mismatch", "error", field) >>
    ELSE << >>

\* ResponseValidator._validate_datatype_property on one value that is not
\* a list.
DatatypeScalarIssues(field, value, range) ==
    LET actual == IF value[1] = "dict" THEN ValueGet(value, << "value" >>, value) ELSE value
        s == PyStr(actual)
        pat == IF ~IsNone(range) /\ range[1] # << >> /\ range[1] \in DATATYPE_PATTERNS_keys
                  /\ ~DATATYPE_PATTERNS(range[1], s)
               THEN << ValidationIssue("type_mismatch", "warning", field) >>
               ELSE << >>
        extra == IF ~IsNone(range) /\ range[1] # << >>
                 THEN IF RangeHasDate(range[1]) THEN _validate_date_value(field, actual)
                      ELSE IF RangeHasInteger(range[1]) THEN _validate_integer_value(field, actual)
                      ELSE << >>
                 ELSE << >>
    IN  pat \o extra

RECURSIVE _validate_datatype_property(_, _, _)
RECURSIVE DatatypeItems(_, _, _)
DatatypeItems(field, items, range) ==
    IF Len(items) = 0 THEN << >>
    ELSE _validate_datatype_property(field, Head(items), range)
            \o DatatypeItems(field, Tail(items), range)

_validate_datatype_property(field, value, range) ==
    IF value[1] = "list" THEN DatatypeItems(field, value[2], range)
    ELSE DatatypeScalarIssues(field, value, range)

\* value.get("qid") or value.get("value") or value.get("id")
DictEntityId(value) ==
    LET q == ValueGet(value, << "qid" >>, VNone)
        w == ValueGet(value, << "value" >>, VNone)
    IN  IF Truthy(q) THEN q
        ELSE IF Truthy(w) THEN w
        ELSE ValueGet(value, << "id" >>, VNone)

\* The entity reference check at the end of _validate_object_property.
EntityRefIssues(field, entity_id) ==
    IF /\ Truthy(entity_id)
       /\ ~QID_PATTERN(PyStr(entity_id))
       /\ ~WIKIDATA_URI_PATTERN(PyStr(entity_id))
    THEN << ValidationIssue("format", "warning", field) >>
    ELSE << >>

RECURSIVE _validate_object_property(_, _)
RECURSIVE ObjectItems(_, _)
ObjectItems(field, items) ==
    IF Len(items) = 0 THEN << >>
    ELSE _validate_object_property(field, Head(items)) \o ObjectItems(field, Tail(items))

_validate_object_property(field, value) ==
    CASE value[1] = "dict" -> EntityRefIssues(field, DictEntityId(value))
      [] value[1] = "str" -> EntityRefIssues(field, value)
      [] value[1] = "list" -> ObjectItems(field, value[2])
      [] OTHER -> << ValidationIssue("type_mismatch", "error", field) >>

\* ResponseValidator._validate_property_value
_validate_property_value(field, value, prop_info, strict) ==
    IF value[1] = "none" THEN << >>
    ELSE IF prop_info.property_type = << "ObjectProperty" >>
         THEN _validate_object_property(field, value)
    ELSE IF prop_info.property_type = << "DatatypeProperty" >>
         THEN _validate_datatype_property(field, value, prop_info.range)
    ELSE << >>

\* ------------------------------------------------------ ValidationResult
\* The object validate_entity constructs: ValidationResult(valid=True,
\* entity_type=..., entity_id=...), every other field at its default.
ValidationResult(etype, entity_id) ==
    [ valid |-> TRUE, entity_type |-> etype, entity_id |-> entity_id,
      issues |-> << >>, error_count |-> 0, warning_count |-> 0, info_count |-> 0 ]

\* add_issue without the assignment valid = False.
add_issue_keeps_valid(r, issue) ==
    LET appended == [ r EXCEPT !.issues = Append(@, issue) ]
    IN  IF issue.severity = "error"
        THEN [ appended EXCEPT !.error_count = @ + 1 ]
        ELSE IF issue.severity = "warning"
        THEN [ appended EXCEPT !.warning_count = @ + 1 ]
        ELSE [ appended EXCEPT !.info_count = @ + 1 ]

\* add_issue whose elif tests ERROR again, so that a warning counts as info.
add_issue_warning_as_info(r, issue) ==
    LET appended == [ r EXCEPT !.issues = Append(@, issue) ]
    IN  IF issue.severity = "error"
        THEN [ appended EXCEPT !.error_count = @ + 1, !.valid = FALSE ]
        ELSE [ appended EXCEPT !.info_count = @ + 1 ]

\* ValidationResult.add_issue
add_issue(r, issue) ==
    LET appended == [ r EXCEPT !.issues = Append(@, issue) ]
    IN  IF issue.severity = "error"
        THEN [ appended EXCEPT !.error_count = @ + 1, !.valid = FALSE ]
        ELSE IF issue.severity = "warning"
        THEN [ appended EXCEPT !.warning_count = @ + 1 ]
        ELSE [ appended EXCEPT !.info_count = @ + 1 ]

RECURSIVE AddIssues(_, _)
AddIssues(r, issues) ==
    IF Len(issues) = 0 THEN r
    ELSE AddIssues(add_issue(r, Head(issues)), Tail(issues))

\* ----------------------------------------------------- validate_entity
\* ResponseValidator._extract_entity_id: the first of qid, id, uri, item
\* that is a key of data; a mapping yields its "value" entry (None when it
\* has none), any other value its str().
EntityIdKeys == << << "qid" >>, << "id" >>, << "uri" >>, << "item" >> >>

_extract_entity_id(d) ==
    IF \E i \in 1..Len(EntityIdKeys) : DictHas(d, EntityIdKeys[i])
    THEN LET i == CHOOSE i \in 1..Len(EntityIdKeys) :
                      /\ DictHas(d, EntityIdKeys[i])
                      /\ \A j \in 1..(i - 1) : ~DictHas(d, EntityIdKeys[j])
             value == DictGet(d, EntityIdKeys[i])
         IN  IF value[1] = "dict" THEN ValueGet(value, << "value" >>, VNone)
             ELSE VStr(PyStr(value))
    ELSE VNone

\* The model validation of the field entity_id: str | None.  The models
\* are pydantic 2 models (app/config.py imports pydantic_settings), whose
\* str fields accept no integer, mapping or list.
EntityIdAccepted(entity_id) == entity_id[1] \in { "str", "none" }

\* The meta fields without "type".
MetaFields_NoType == { << "qid" >>, << "id" >>, << "uri" >> }

MetaFields == { << "qid" >>, << "id" >>, << "uri" >>, << "type" >> }

UnknownPropertySeverity(isStrict) == IF ~isStrict THEN "warning" ELSE "error"

\* The severity of a missing property without the strict adjustment.
MissingSeverity_IgnoresStrict(is_required, isStrict) ==
    IF is_required THEN "error" ELSE "info"

MissingSeverity(is_required, isStrict) ==
    IF isStrict /\ ~is_required THEN "warning"
    ELSE IF is_required THEN "error" ELSE "info"

\* One iteration of the loop over data.items().
FieldIssues(schema, expected, field, value, isStrict) ==
    IF field \in MetaFields THEN << >>
    ELSE IF DictHas(expected, field)
         THEN _validate_property_value(field, value, DictGet(expected, field), isStrict)
    ELSE LET wd_prop == translate_from_wikidata(schema, field)
         IN  IF IsNone(wd_prop) \/ wd_prop[1] = << >>
             THEN << ValidationIssue("unknown_property", UnknownPropertySeverity(isStrict), field) >>
             ELSE << >>

RECURSIVE FieldLoop(_, _, _, _)
FieldLoop(schema, expected, items, isStrict) ==
    IF Len(items) = 0 THEN << >>
    ELSE FieldIssues(schema, expected, Head(items)[1], Head(items)[2], isStrict)
            \o FieldLoop(schema, expected, Tail(items), isStrict)

\* The loop over expected_props.items().
RECURSIVE MissingLoop(_, _, _)
MissingLoop(expected, d, isStrict) ==
    IF Len(expected) = 0 THEN << >>
    ELSE LET prop_name == Head(expected)[1]
             prop_info == Head(expected)[2]
             here == IF ~DictHas(d, prop_name)
                     THEN << ValidationIssue("missing_required",
                                   MissingSeverity(prop_info.required, isStrict),
                                   prop_name) >>
                     ELSE << >>
         IN  here \o MissingLoop(Tail(expected), d, isStrict)

\* validate_entity without the return in the unknown-type branch.
validate_entity_no_early_return(schema, onto, etype, d, isStrict) ==
    LET entity_id == _extract_entity_id(d)
        fresh == ValidationResult(etype, entity_id)
        expected == get_expected_properties_for_class(schema, onto, etype)
        first == IF IsNone(get_class_mapping(schema, etype))
                 THEN << ValidationIssue("unknown_property", "error", << "entity_type" >>) >>
                 ELSE << >>
    IN  IF ~EntityIdAccepted(entity_id)
        THEN [ raised |-> TRUE, result |-> << >> ]
        ELSE [ raised |-> FALSE,
               result |-> AddIssues(fresh,
                              first \o FieldLoop(schema, expected, d, isStrict)
                                 \o MissingLoop(expected, d, isStrict)) ]

\* ResponseValidator.validate_entity.  raised: the call ends with the
\* exception of the result's construction and returns nothing.
validate_entity(schema, onto, etype, d, isStrict) ==
    LET entity_id == _extract_entity_id(d)
        fresh == ValidationResult(etype, entity_id)
        expected == get_expected_properties_for_class(schema, onto, etype)
    IN  IF ~EntityIdAccepted(entity_id)
        THEN [ raised |-> TRUE, result |-> << >> ]
        ELSE IF IsNone(get_class_mapping(schema, etype))
        THEN [ raised |-> FALSE,
               result |-> add_issue(fresh,
                              ValidationIssue("unknown_property", "error", << "entity_type" >>)) ]
        ELSE [ raised |-> FALSE,
               result |-> AddIssues(fresh,
                              FieldLoop(schema, expected, d, isStrict)
                                 \o MissingLoop(expected, d, isStrict)) ]

\* ------------------------------------------------ BatchValidationResult
BatchValidationResult(n) ==
    [ total_entities |-> n, valid_entities |-> 0, invalid_entities |-> 0,
      results |-> << >>, total_errors |-> 0, total_warnings |-> 0,
      summary |-> << >> ]

\* The summary update storing 1 instead of the incremented count.
RECURSIVE UpdateSummary_Overwrite(_, _)
UpdateSummary_Overwrite(summary, issues) ==
    IF Len(issues) = 0 THEN summary
    ELSE UpdateSummary_Overwrite(DictSet(summary, Head(issues).type, 1), Tail(issues))

RECURSIVE UpdateSummary(_, _)
UpdateSummary(summary, issues) ==
    IF Len(issues) = 0 THEN summary
    ELSE LET key == Head(issues).type
             old == IF DictHas(summary, key) THEN DictGet(summary, key) ELSE 0
         IN  UpdateSummary(DictSet(summary, key, old + 1), Tail(issues))

\* add_result counting every result as valid.
add_result_always_valid(b, r) ==
    [ b EXCEPT !.results = Append(@, r),
               !.valid_entities = @ + 1,
               !.invalid_entities = IF r.valid THEN @ ELSE @ + 1,
               !.total_errors = @ + r.error_count,
               !.total_warnings = @ + r.warning_count,
               !.summary = UpdateSummary(@, r.issues) ]

\* BatchValidationResult.add_result
add_result(b, r) ==
    [ b EXCEPT !.results = Append(@, r),
               !.valid_entities = IF r.valid THEN @ + 1 ELSE @,
               !.invalid_entities = IF r.valid THEN @ ELSE @ + 1,
               !.total_errors = @ + r.error_count,
               !.total_warnings = @ + r.warning_count,
               !.summary = UpdateSummary(@, r.issues) ]

\* ------------------------------------------------------ SPARQL generator
\* separator.join(parts)
RECURSIVE Join(_, _)
Join(parts, separator) ==
    IF Len(parts) = 0 THEN << >>
    ELSE IF Len(parts) = 1 THEN parts[1]
    ELSE parts[1] \o separator \o Join(Tail(parts), separator)

\* SPARQLGenerator.WIKIDATA_PREFIXES
WIKIDATA_PREFIXES ==
    << "\n",
       "PREFIX wd: <http://www.wikidata.org/entity/>", "\n",
       "PREFIX wdt: <http://www.wikidata.org/prop/direct/>", "\n",
       "PREFIX wikibase: <http://wikiba.se/ontology#>", "\n",
       "PREFIX bd: <http://www.bigdata.com/rdf#>", "\n",
       "PREFIX rdfs: <http://www.w3.org/2000/01/rdf-schema#>", "\n",
       "PREFIX schema: <http://schema.org/>", "\n" >>

LabelService ==
    << "  SERVICE wikibase:label { bd:serviceParam wikibase:language ",
       "\"[AUTO_LANGUAGE],en\"", ". }" >>

\* "if qid:" on a str | None argument and "if year_start:" on an
\* int | None argument: None, the empty string and 0 are false.
StrGiven(o) == ~IsNone(o) /\ o[1] # << >>

IntGiven(o) == ~IsNone(o) /\ o[1] # 0

Bind(qid, var) == << "BIND(wd:" >> \o qid \o << " AS ", var, ")" >>

InstanceOf(var, wikidata_id) ==
    << var, " wdt:P31/wdt:P279* wd:" >> \o wikidata_id \o << " ." >>

\* The main type constraint of generate_entity_query with both patterns
\* when a qid is given.
EntityItemPatterns_both(class_mapping, qid) ==
    IF StrGiven(qid)
    THEN << Bind(qid[1], "?item"), InstanceOf("?item", class_mapping.wikidata_id) >>
    ELSE << InstanceOf("?item", class_mapping.wikidata_id) >>

\* generate_entity_query, the main type constraint: the list patterns.
EntityItemPatterns(class_mapping, qid) ==
    IF StrGiven(qid)
    THEN << Bind(qid[1], "?item") >>
    ELSE << InstanceOf("?item", class_mapping.wikidata_id) >>

\* The loop over properties: the variables a property adds to select_vars
\* and the clause it adds to optionals.
PropertySelectVars(prop) ==
    IF prop.property_type = << "ObjectProperty" >>
    THEN << << "?" >> \o prop.ontology_local, << "?" >> \o prop.ontology_local \o << "Label" >> >>
    ELSE << << "?" >> \o prop.ontology_local >>

RECURSIVE SelectVarsOf(_)
SelectVarsOf(properties) ==
    IF Len(properties) = 0 THEN << >>
    ELSE PropertySelectVars(Head(properties)) \o SelectVarsOf(Tail(properties))

OptionalClause(subject, wikidata_id, var_name) ==
    << "OPTIONAL { ", subject, " wdt:" >> \o wikidata_id \o << " " >> \o var_name \o << " . }" >>

OptionalsOf(properties) ==
    [ i \in 1..Len(properties) |->
        OptionalClause("?item", properties[i].wikidata_id,
                       << "?" >> \o properties[i].ontology_local) ]

\* generate_entity_query from the list patterns on: the query text for a
\* class mapping and its properties.
EntityQueryText(class_mapping, properties, qid, include_labels, limit) ==
    LET select_vars == << << "?item" >>, << "?itemLabel" >> >> \o SelectVarsOf(properties)
        patterns == EntityItemPatterns(class_mapping, qid)
        optionals == OptionalsOf(properties)
        query_parts ==
            << WIKIDATA_PREFIXES,
               << "SELECT DISTINCT " >> \o Join(select_vars, << " " >>),
               << "WHERE {" >>,
               << "  " >> \o Join(patterns, << "\n", "  " >>),
               << "  " >> \o Join(optionals, << "\n", "  " >>) >>
            \o (IF include_labels THEN << LabelService >> ELSE << >>)
            \o << << "}" >>, << "LIMIT " >> \o IntToStr(limit) >>
    IN  Join(query_parts, << "\n" >>)

\* SPARQLGenerator.generate_entity_query.  raised: the call ends with
\* ValueError and returns no text.
generate_entity_query(schema, onto, args) ==
    LET class_mapping == get_class_mapping(schema, args.entity_type)
    IN  IF IsNone(class_mapping)
        THEN [ raised |-> TRUE, text |-> None ]
        ELSE [ raised |-> FALSE,
               text |-> Some(EntityQueryText(class_mapping[1],
                                 get_properties_for_class(schema, onto, args.entity_type),
                                 args.qid, args.include_labels, args.limit)) ]

\* The year comparisons and the tail shared by generate_author_query and
\* generate_work_query.
YearFilters(date_var, year_start, year_end) ==
    (IF IntGiven(year_start)
     THEN << << "YEAR(", date_var, ") >= " >> \o IntToStr(year_start[1]) >>
     ELSE << >>)
    \o (IF IntGiven(year_end)
        THEN << << "YEAR(", date_var, ") <= " >> \o IntToStr(year_end[1]) >>
        ELSE << >>)

FilteredQueryText(select_vars, patterns, optionals, filters, limit, offset) ==
    LET query_parts ==
            << WIKIDATA_PREFIXES,
               << "SELECT DISTINCT " >> \o Join(select_vars, << " " >>),
               << "WHERE {" >>,
               << "  " >> \o Join(patterns, << "\n", "  " >>),
               << "  " >> \o Join(optionals, << "\n", "  " >>) >>
            \o (IF Len(filters) > 0
                THEN << << "  FILTER(" >> \o Join(filters, << " && " >>) \o << ")" >> >>
                ELSE << >>)
            \o << LabelService, << "}" >>, << "LIMIT " >> \o IntToStr(limit) >>
            \o (IF offset > 0 THEN << << "OFFSET " >> \o IntToStr(offset) >> ELSE << >>)
    IN  Join(query_parts, << "\n" >>)

\* SPARQLGenerator.generate_author_query
generate_author_query(args) ==
    LET select_vars ==
            << << "?author" >>, << "?authorLabel" >>, << "?authorDescription" >>,
               << "?birthDate" >>, << "?deathDate" >>,
               << "?birthPlace" >>, << "?birthPlaceLabel" >>,
               << "?deathPlace" >>, << "?deathPlaceLabel" >>,
               << "?nationality" >>, << "?nationalityLabel" >>,
               << "?movement" >>, << "?movementLabel" >>,
               << "?image" >> >>
        patterns ==
            (IF StrGiven(args.author_qid)
             THEN << Bind(args.author_qid[1], "?author") >>
             ELSE << << "{ ?author wdt:P31 wd:Q482980 } UNION { ?author wdt:P106 wd:Q36180 }" >> >>)
            \o (IF StrGiven(args.country_qid)
                THEN << << "?author wdt:P27 wd:" >> \o args.country_qid[1] \o << " ." >> >>
                ELSE << >>)
            \o (IF StrGiven(args.movement_qid)
                THEN << << "?author wdt:P135 wd:" >> \o args.movement_qid[1] \o << " ." >> >>
                ELSE << >>)
        optionals ==
            << OptionalClause("?author", << "P569" >>, << "?birthDate" >>),
               OptionalClause("?author", << "P570" >>, << "?deathDate" >>),
               OptionalClause("?author", << "P19" >>, << "?birthPlace" >>),
               OptionalClause("?author", << "P20" >>, << "?deathPlace" >>),
               OptionalClause("?author", << "P27" >>, << "?nationality" >>),
               OptionalClause("?author", << "P135" >>, << "?movement" >>),
               OptionalClause("?author", << "P18" >>, << "?image" >>) >>
        filters == YearFilters("?birthDate", args.year_start, args.year_end)
    IN  FilteredQueryText(select_vars, patterns, optionals, filters, args.limit, args.offset)

\* SPARQLGenerator.generate_work_query
generate_work_query(args) ==
    LET select_vars ==
            << << "?work" >>, << "?workLabel" >>, << "?workDescription" >>,
               << "?author" >>, << "?authorLabel" >>,
               << "?publicationDate" >>,
               << "?genre" >>, << "?genreLabel" >>,
               << "?narrativeLocation" >>, << "?narrativeLocationLabel" >>,
               << "?language" >>, << "?languageLabel" >> >>
        patterns ==
            (IF StrGiven(args.work_qid)
             THEN << Bind(args.work_qid[1], "?work") >>
             ELSE << InstanceOf("?work", << "Q7725634" >>) >>)
            \o (IF StrGiven(args.author_qid)
                THEN << << "?work wdt:P50 wd:" >> \o args.author_qid[1] \o << " ." >> >>
                ELSE << >>)
            \o (IF StrGiven(args.genre_qid)
                THEN << << "?work wdt:P136 wd:" >> \o args.genre_qid[1] \o << " ." >> >>
                ELSE << >>)
        optionals ==
            << OptionalClause("?work", << "P50" >>, << "?author" >>),
               OptionalClause("?work", << "P577" >>, << "?publicationDate" >>),
               OptionalClause("?work", << "P136" >>, << "?genre" >>),
               OptionalClause("?work", << "P840" >>, << "?narrativeLocation" >>),
               OptionalClause("?work", << "P407" >>, << "?language" >>) >>
        filters == YearFilters("?publicationDate", args.year_start, args.year_end)
    IN  FilteredQueryText(select_vars, patterns, optionals, filters, args.limit, args.offset)

\* SPARQLGenerator.generate_influence_graph_query
generate_influence_graph_query(args) ==
    IF StrGiven(args.center_qid)
    THEN WIKIDATA_PREFIXES
         \o << "\n",
               "SELECT DISTINCT ?source ?sourceLabel ?target ?targetLabel ?relationship", "\n",
               "WHERE {", "\n",
               "  " >> \o Bind(args.center_qid[1], "?center") \o << "\n",
               "  {", "\n",
               "    ?center wdt:P737 ?target .", "\n",
               "    BIND(?center AS ?source)", "\n",
               "    BIND(\"influencedBy\" AS ?relationship)", "\n",
               "  } UNION {", "\n",
               "    ?source wdt:P737 ?center .", "\n",
               "    BIND(?center AS ?target)", "\n",
               "    BIND(\"influencedBy\" AS ?relationship)", "\n",
               "  }", "\n",
               "  ?source wdt:P31/wdt:P279* wd:Q5 .  # human", "\n",
               "  ?target wdt:P31/wdt:P279* wd:Q5 .  # human", "\n" >>
         \o LabelService
         \o << "\n", "}", "\n", "LIMIT " >> \o IntToStr(args.limit)
    ELSE WIKIDATA_PREFIXES
         \o << "\n",
               "SELECT DISTINCT ?source ?sourceLabel ?target ?targetLabel", "\n",
               "WHERE {", "\n",
               "  ?source wdt:P737 ?target .", "\n",
               "  ?source wdt:P106 wd:Q36180 .  # writer", "\n",
               "  ?target wdt:P106 wd:Q36180 .  # writer", "\n" >>
         \o LabelService
         \o << "\n", "}", "\n", "LIMIT " >> \o IntToStr(args.limit)

\* ------------------------------------------------------------- inputs
S_Q42 == << "Q", "4", "2" >>

S_FullDate == << "1", "8", "9", "9", "-", "0", "7", "-", "2", "1" >>

S_Year == << "1", "8", "9", "9" >>

EntityTypes == { << "Author" >>, << "LiteraryWork" >>, << "Bogus" >> }

\* The << key, value >> entries the entity data is built from.
DataEntries ==
    { << << "qid" >>, VStr(S_Q42) >>,
      << << "qid" >>, VDict(<< << << "value" >>, VStr(S_Q42) >> >>) >>,
      << << "qid" >>, VDict(<< << << "value" >>, VInt(5) >> >>) >>,
      << << "qid" >>, VDict(<< << << "type" >>, VStr(<< "uri" >>) >> >>) >>,
      << << "id" >>, VInt(5) >>,
      << << "item" >>, VStr(WD \o S_Q42) >>,
      << << "item" >>, VDict(<< << << "value" >>, VList(<< >>) >> >>) >>,
      << << "type" >>, VStr(<< "human" >>) >>,
      << << "birthDate" >>, VStr(S_FullDate) >>,
      << << "birthDate" >>, VStr(S_Year) >>,
      << << "birthDate" >>, VStr(<< "soon" >>) >>,
      << << "birthDate" >>, VNone >>,
      << << "birthDate" >>, VList(<< VStr(S_FullDate), VStr(<< "soon" >>) >>) >>,
      << << "birthPlace" >>, VStr(S_Q42) >>,
      << << "birthPlace" >>, VStr(<< "Paris" >>) >>,
      << << "birthPlace" >>, VInt(5) >>,
      << << "birthPlace" >>, VNone >>,
      << << "birthPlace" >>, VDict(<< << << "qid" >>, VStr(S_Q42) >> >>) >>,
      << << "pageCount" >>, VStr(<< "1", "2" >>) >>,
      << << "pageCount" >>, VStr(<< "abc" >>) >>,
      << << "writtenBy" >>, VStr(WD \o S_Q42) >>,
      << << "P", "5", "6", "9" >>, VStr(S_FullDate) >>,
      << << "Author" >>, VStr(<< "yes" >>) >>,
      << << "foo" >>, VStr(<< "bar" >>) >> }

DistinctKeys(d) == \A i, j \in 1..Len(d) : d[i][1] = d[j][1] => i = j

DataSet ==
    UNION { { d \in [ 1..n -> DataEntries ] : DistinctKeys(d) } : n \in 0..MaxFields }

\* The entities a batch is built from.
BatchEntities ==
    { << >>,
      << << << "qid" >>, VStr(S_Q42) >>, << << "birthDate" >>, VStr(S_FullDate) >> >>,
      << << << "birthDate" >>, VStr(S_Year) >> >>,
      << << << "birthPlace" >>, VInt(5) >> >>,
      << << << "foo" >>, VStr(<< "bar" >>) >> >>,
      << << << "qid" >>, VDict(<< << << "value" >>, VInt(5) >> >>) >> >> }

BatchLists == UNION { [ 1..n -> BatchEntities ] : n \in 0..MaxBatch }

IssueInputs ==
    { ValidationIssue(t, sev, << "birthDate" >>) : t \in { "format", "missing_required" },
                                          sev \in ValidationSeverity }

\* ------------------------------------------------------------------ state
VARIABLES
    ontology,       \* the rows and subclass triples of the loaded ontology graph
    schema_info,    \* SchemaMapper._schema_info: None or Some(SchemaInfo)
    entity_type,    \* argument entity_type
    strict,         \* argument strict
    data,           \* argument data of validate_entity
    data_list,      \* argument data_list of validate_batch
    pc,             \* position of the call
    result,         \* the ValidationResult
    added,          \* the issues handed to add_issue so far, in call order
    batch_result,   \* the BatchValidationResult
    schema_id,      \* identity of the object in _schema_info: the number of
                    \* SchemaInfo objects constructed so far, 0 while it is None
    queries,        \* number of calls of OntologyService.query so far
    ret,            \* the last look-up call of the SchemaMapper and what it returned
    extracted,      \* the last call of extract_mappings by a client and its outcome
    prev_extracted, \* the call of extract_mappings by a client before that
    generated,      \* the last call of a SPARQLGenerator method and its outcome
    prev_generated, \* the call of a SPARQLGenerator method before that
    shapes_graph,   \* SHACLValidator.shapes_graph: a set of triples
    frame,          \* the local variables of the operation that is running
    redis           \* the entries of the Redis server: key and serialized value

vars == << ontology, schema_info, entity_type, strict, data, data_list, pc, result,
           added, batch_result, schema_id, queries, ret, extracted, prev_extracted,
           generated, prev_generated, shapes_graph, frame, redis >>

\* The variables of the mapper, the validator and the generator but pc and
\* ret.
validatorVars ==
    << ontology, schema_info, entity_type, strict, data, data_list, result, added,
       batch_result, schema_id, queries, extracted, prev_extracted, generated,
       prev_generated >>

\* No operation with local variables is running.
NoFrame == [ op |-> "none" ]

\* The operation op has run to its return and no other has begun since.
Returned(op) == frame.op = op /\ frame.returned

\* No operation is running: none has begun, or the last one has returned.
NoneRunning == IF frame.op = "none" THEN TRUE ELSE frame.returned

\* No SHACLValidator is constructed, the Redis server holds no entry.
NoServices == shapes_graph = { } /\ frame = NoFrame /\ redis = << >>

\* The records of a look-up, of an extract_mappings call and of a generator
\* call before any call.
NoCall == [ op |-> "none", arg |-> << >>, value |-> << >> ]

NoExtraction == [ called |-> FALSE, force |-> FALSE, value |-> << >>, id |-> 0, queries |-> 0 ]

NoQuery == [ op |-> "none", args |-> << >>, raised |-> FALSE, text |-> << >>, id |-> 0 ]

\* SchemaMapper.__init__ and SPARQLGenerator.__init__: nothing cached,
\* nothing called.
NoCallsYet ==
    /\ schema_id = 0
    /\ queries = 0
    /\ ret = NoCall
    /\ extracted = NoExtraction
    /\ prev_extracted = NoExtraction
    /\ generated = NoQuery
    /\ prev_generated = NoQuery

\* extract_mappings when the property query returns its rows in the
\* opposite order on every second extraction.
Extract_row_order_varies(force_refresh) ==
    IF CacheHit(schema_info, force_refresh)
    THEN UNCHANGED << schema_info, schema_id, queries >>
    ELSE /\ schema_id < MaxExtractions
         /\ schema_info' =
                Some(SchemaInfo(
                    IF schema_id % 2 = 0 THEN ontology
                    ELSE [ ontology EXCEPT !.property_rows =
                             [ i \in 1..Len(@) |-> @[Len(@) + 1 - i] ] ]))
         /\ schema_id' = schema_id + 1
         /\ queries' = queries + 2

\* SchemaMapper.extract_mappings on the mapper's state: the cached object,
\* or an extraction (the class query and the property query) whose result
\* is a new object that replaces the cached one.
Extract(force_refresh) ==
    IF CacheHit(schema_info, force_refresh)
    THEN UNCHANGED << schema_info, schema_id, queries >>
    ELSE /\ schema_id < MaxExtractions
         /\ schema_info' = Some(SchemaInfo(ontology))
         /\ schema_id' = schema_id + 1
         /\ queries' = queries + 2

\* extract_mappings() as the methods of the mapper call it.
EnsureExtracted == Extract(FALSE)

\* -------------------------------------------- add_issue on a fresh result
InitIssue ==
    /\ ontology = OntologyPlain
    /\ schema_info = None
    /\ entity_type \in EntityTypes
    /\ strict = FALSE
    /\ data = << >>
    /\ data_list = << >>
    /\ pc = "open"
    /\ result = ValidationResult(entity_type, _extract_entity_id(data))
    /\ added = << >>
    /\ batch_result = << >>
    /\ NoCallsYet
    /\ NoServices

AddIssueCall ==
    /\ pc = "open"
    /\ Len(added) < MaxIssues
    /\ \E issue \in IssueInputs :
          /\ result' = add_issue(result, issue)
          /\ added' = Append(added, issue)
    /\ UNCHANGED << ontology, schema_info, entity_type, strict, data, data_list, pc, batch_result >>
    /\ UNCHANGED << schema_id, queries, ret, extracted, prev_extracted, generated, prev_generated >>
    /\ UNCHANGED << shapes_graph, frame, redis >>

NextIssue == AddIssueCall

SpecIssue == InitIssue /\ [][NextIssue]_vars

\* ----------------------------------------------------- validate_entity
InitEntity ==
    /\ ontology \in Ontologies
    /\ schema_info = None
    /\ entity_type \in EntityTypes
    /\ strict \in BOOLEAN
    /\ data \in DataSet
    /\ data_list = << >>
    /\ pc = "call"
    /\ result = << >>
    /\ added = << >>
    /\ batch_result = << >>
    /\ NoCallsYet
    /\ NoServices

ValidateEntityCall ==
    /\ pc = "call"
    /\ LET schema == extract_mappings(schema_info, ontology)
           out == validate_entity(schema, ontology, entity_type, data, strict)
       IN  IF out.raised
           THEN /\ pc' = "raised"
                /\ UNCHANGED << result, schema_info, schema_id, queries >>
           ELSE /\ pc' = "returned"
                /\ result' = out.result
                /\ EnsureExtracted
    /\ UNCHANGED << ontology, entity_type, strict, data, data_list, added, batch_result >>
    /\ UNCHANGED << ret, extracted, prev_extracted, generated, prev_generated >>
    /\ UNCHANGED << shapes_graph, frame, redis >>

NextEntity == ValidateEntityCall

SpecEntity == InitEntity /\ [][NextEntity]_vars

\* ------------------------------------------------------ validate_batch
InitBatch ==
    /\ ontology \in Ontologies
    /\ schema_info = None
    /\ entity_type \in EntityTypes
    /\ strict \in BOOLEAN
    /\ data = << >>
    /\ data_list \in BatchLists
    /\ pc = "call"
    /\ result = << >>
    /\ added = << >>
    /\ batch_result = << >>
    /\ NoCallsYet
    /\ NoServices

\* batch_result = BatchValidationResult(total_entities=len(data_list))
BatchBegin ==
    /\ pc = "call"
    /\ batch_result' = BatchValidationResult(Len(data_list))
    /\ pc' = "loop"
    /\ UNCHANGED << ontology, schema_info, entity_type, strict, data, data_list, result, added >>
    /\ UNCHANGED << schema_id, queries, ret, extracted, prev_extracted, generated, prev_generated >>
    /\ UNCHANGED << shapes_graph, frame, redis >>

\* One iteration of "for data in data_list": the exception of
\* validate_entity leaves the loop and the call.
BatchIterate ==
    /\ pc = "loop"
    /\ Len(batch_result.results) < Len(data_list)
    /\ LET schema == extract_mappings(schema_info, ontology)
           out == validate_entity(schema, ontology, entity_type,
                                 data_list[Len(batch_result.results) + 1], strict)
       IN  IF out.raised
           THEN /\ pc' = "raised"
                /\ UNCHANGED << batch_result, schema_info, schema_id, queries >>
           ELSE /\ batch_result' = add_result(batch_result, out.result)
                /\ EnsureExtracted
                /\ pc' = "loop"
    /\ UNCHANGED << ontology, entity_type, strict, data, data_list, result, added >>
    /\ UNCHANGED << ret, extracted, prev_extracted, generated, prev_generated >>
    /\ UNCHANGED << shapes_graph, frame, redis >>

BatchReturn ==
    /\ pc = "loop"
    /\ Len(batch_result.results) = Len(data_list)
    /\ pc' = "returned"
    /\ UNCHANGED << ontology, schema_info, entity_type, strict, data, data_list, result,
                    added, batch_result >>
    /\ UNCHANGED << schema_id, queries, ret, extracted, prev_extracted, generated, prev_generated >>
    /\ UNCHANGED << shapes_graph, frame, redis >>

NextBatch == BatchBegin \/ BatchIterate \/ BatchReturn

SpecBatch == InitBatch /\ [][NextBatch]_vars

\* ----------------------------------------------------- the schema mapper
\* The identifiers the look-ups are called with: every identifier field of
\* every mapping of the ontology, the empty string and two identifiers no
\* mapping carries.
MappingIdentifiers(mappings) ==
    UNION { { mappings[i].ontology_local, mappings[i].ontology_uri,
              mappings[i].wikidata_id, mappings[i].wikidata_uri } : i \in 1..Len(mappings) }

Identifiers(onto) ==
    MappingIdentifiers(_extract_class_mappings(onto.class_rows))
        \cup MappingIdentifiers(_extract_property_mappings(onto.property_rows))
        \cup { << >>, << "Bogus" >>, WD \o << "Q", "9" >> }

InitMapper ==
    /\ ontology \in MapperOntologies
    /\ schema_info = None
    /\ entity_type = << >>
    /\ strict = FALSE
    /\ data = << >>
    /\ data_list = << >>
    /\ pc = "idle"
    /\ result = << >>
    /\ added = << >>
    /\ batch_result = << >>
    /\ NoCallsYet
    /\ NoServices

\* extract_mappings(force_refresh) called by a client.
ExtractMappingsCall ==
    /\ pc = "idle"
    /\ \E force_refresh \in BOOLEAN :
          /\ Extract(force_refresh)
          /\ extracted' = [ called |-> TRUE, force |-> force_refresh, value |-> schema_info',
                            id |-> schema_id', queries |-> queries' ]
    /\ prev_extracted' = extracted
    /\ UNCHANGED << ontology, entity_type, strict, data, data_list, pc, result, added,
                    batch_result, ret, generated, prev_generated >>
    /\ UNCHANGED << shapes_graph, frame, redis >>

GetClassMappingCall ==
    /\ pc = "idle"
    /\ EnsureExtracted
    /\ \E identifier \in Identifiers(ontology) :
          ret' = [ op |-> "get_class_mapping", arg |-> identifier,
                   value |-> get_class_mapping(schema_info'[1], identifier) ]
    /\ UNCHANGED << ontology, entity_type, strict, data, data_list, pc, result, added,
                    batch_result, extracted, prev_extracted, generated, prev_generated >>
    /\ UNCHANGED << shapes_graph, frame, redis >>

GetPropertyMappingCall ==
    /\ pc = "idle"
    /\ EnsureExtracted
    /\ \E identifier \in Identifiers(ontology) :
          ret' = [ op |-> "get_property_mapping", arg |-> identifier,
                   value |-> get_property_mapping(schema_info'[1], identifier) ]
    /\ UNCHANGED << ontology, entity_type, strict, data, data_list, pc, result, added,
                    batch_result, extracted, prev_extracted, generated, prev_generated >>
    /\ UNCHANGED << shapes_graph, frame, redis >>

GetPropertiesForClassCall ==
    /\ pc = "idle"
    /\ EnsureExtracted
    /\ \E class_identifier \in Identifiers(ontology) :
          ret' = [ op |-> "get_properties_for_class", arg |-> class_identifier,
                   value |-> get_properties_for_class(schema_info'[1], ontology,
                                                      class_identifier) ]
    /\ UNCHANGED << ontology, entity_type, strict, data, data_list, pc, result, added,
                    batch_result, extracted, prev_extracted, generated, prev_generated >>
    /\ UNCHANGED << shapes_graph, frame, redis >>

TranslateToWikidataCall ==
    /\ pc = "idle"
    /\ EnsureExtracted
    /\ \E ontology_identifier \in Identifiers(ontology) :
          ret' = [ op |-> "translate_to_wikidata", arg |-> ontology_identifier,
                   value |-> translate_to_wikidata(schema_info'[1], ontology_identifier) ]
    /\ UNCHANGED << ontology, entity_type, strict, data, data_list, pc, result, added,
                    batch_result, extracted, prev_extracted, generated, prev_generated >>
    /\ UNCHANGED << shapes_graph, frame, redis >>

TranslateFromWikidataCall ==
    /\ pc = "idle"
    /\ EnsureExtracted
    /\ \E wikidata_id \in Identifiers(ontology) :
          ret' = [ op |-> "translate_from_wikidata", arg |-> wikidata_id,
                   value |-> translate_from_wikidata(schema_info'[1], wikidata_id) ]
    /\ UNCHANGED << ontology, entity_type, strict, data, data_list, pc, result, added,
                    batch_result, extracted, prev_extracted, generated, prev_generated >>
    /\ UNCHANGED << shapes_graph, frame, redis >>

NextMapper ==
    \/ ExtractMappingsCall
    \/ GetClassMappingCall
    \/ GetPropertyMappingCall
    \/ GetPropertiesForClassCall
    \/ TranslateToWikidataCall
    \/ TranslateFromWikidataCall

SpecMapper == InitMapper /\ [][NextMapper]_vars

\* ------------------------------------------------- the generator's clients
S_Q218 == << "Q", "2", "1", "8" >>

S_Q37068 == << "Q", "3", "7", "0", "6", "8" >>

EntityArgs(type, qid, include_labels) ==
    [ entity_type |-> type, qid |-> qid, include_labels |-> include_labels,
      limit |-> 100 ]

\* Arguments of generate_entity_query: a type every ontology maps, one
\* only some map and one none maps; no qid, the empty qid, a qid.
EntityQueryArgs ==
    { EntityArgs(<< "Author" >>, None, TRUE),
      EntityArgs(<< "Author" >>, Some(S_Q42), TRUE),
      EntityArgs(<< "Author" >>, Some(<< >>), TRUE),
      EntityArgs(<< "Author" >>, None, FALSE),
      EntityArgs(<< "Genre" >>, None, TRUE),
      EntityArgs(<< "Genre" >>, Some(S_Q42), FALSE),
      EntityArgs(<< "Bogus" >>, None, TRUE),
      EntityArgs(<< "Bogus" >>, Some(S_Q42), TRUE) }

AuthorArgs(author_qid, country_qid, movement_qid, year_start, year_end, offset) ==
    [ author_qid |-> author_qid, country_qid |-> country_qid,
      movement_qid |-> movement_qid, year_start |-> year_start,
      year_end |-> year_end, limit |-> 100, offset |-> offset ]

\* Arguments of generate_author_query: no filter, the filters alone and
\* together, the years 0 and below, an offset.
AuthorQueryArgs ==
    { AuthorArgs(None, None, None, None, None, 0),
      AuthorArgs(Some(S_Q42), None, None, None, None, 0),
      AuthorArgs(None, Some(S_Q218), Some(S_Q37068), None, None, 0),
      AuthorArgs(None, None, None, Some(1800), Some(1900), 20),
      AuthorArgs(Some(S_Q42), Some(S_Q218), Some(S_Q37068), Some(1800), Some(1900), 0),
      AuthorArgs(None, None, None, Some(0), None, 0),
      AuthorArgs(None, None, None, Some(0 - 100), Some(0), 0) }

WorkArgs(work_qid, author_qid, genre_qid, year_start, year_end, offset) ==
    [ work_qid |-> work_qid, author_qid |-> author_qid, genre_qid |-> genre_qid,
      year_start |-> year_start, year_end |-> year_end, limit |-> 100,
      offset |-> offset ]

\* Arguments of generate_work_query, chosen like those of the author query.
WorkQueryArgs ==
    { WorkArgs(None, None, None, None, None, 0),
      WorkArgs(Some(S_Q42), None, None, None, None, 0),
      WorkArgs(None, Some(S_Q42), Some(S_Q218), None, None, 0),
      WorkArgs(None, None, None, Some(1800), Some(1900), 20),
      WorkArgs(None, None, None, Some(0), None, 0),
      WorkArgs(None, None, None, Some(0 - 100), Some(0), 0) }

InfluenceQueryArgs == [ center_qid : { None, Some(S_Q42) }, depth : { 2 }, limit : { 200 } ]

InitGenerator ==
    /\ ontology \in MapperOntologies
    /\ schema_info = None
    /\ entity_type = << >>
    /\ strict = FALSE
    /\ data = << >>
    /\ data_list = << >>
    /\ pc = "idle"
    /\ result = << >>
    /\ added = << >>
    /\ batch_result = << >>
    /\ NoCallsYet
    /\ NoServices

\* A call of a generator operation returns: the call and its outcome
\* replace the last one recorded.
Generated(op, args, outcome) ==
    /\ generated' = [ op |-> op, args |-> args, raised |-> outcome.raised,
                      text |-> outcome.text, id |-> schema_id' ]
    /\ prev_generated' = generated

\* extract_mappings(force_refresh=True) called by a client that keeps
\* no reference to the object returned.
RefreshMappingsCall ==
    /\ pc = "idle"
    /\ Extract(TRUE)
    /\ UNCHANGED << ontology, entity_type, strict, data, data_list, pc, result, added,
                    batch_result, ret, extracted, prev_extracted, generated,
                    prev_generated >>
    /\ UNCHANGED << shapes_graph, frame, redis >>

\* generate_entity_query: both mapper look-ups go through extract_mappings.
GenerateEntityQueryCall ==
    /\ pc = "idle"
    /\ EnsureExtracted
    /\ \E args \in EntityQueryArgs :
          Generated("generate_entity_query", args,
                    generate_entity_query(schema_info'[1], ontology, args))
    /\ UNCHANGED << ontology, entity_type, strict, data, data_list, pc, result, added,
                    batch_result, ret, extracted, prev_extracted >>
    /\ UNCHANGED << shapes_graph, frame, redis >>

\* generate_author_query: get_expected_properties_for_class("Author") goes
\* through extract_mappings; its value is not used.
GenerateAuthorQueryCall ==
    /\ pc = "idle"
    /\ EnsureExtracted
    /\ \E args \in AuthorQueryArgs :
          Generated("generate_author_query", args,
                    [ raised |-> FALSE, text |-> Some(generate_author_query(args)) ])
    /\ UNCHANGED << ontology, entity_type, strict, data, data_list, pc, result, added,
                    batch_result, ret, extracted, prev_extracted >>
    /\ UNCHANGED << shapes_graph, frame, redis >>

\* generate_work_query: no mapper call.
GenerateWorkQueryCall ==
    /\ pc = "idle"
    /\ UNCHANGED << schema_info, schema_id, queries >>
    /\ \E args \in WorkQueryArgs :
          Generated("generate_work_query", args,
                    [ raised |-> FALSE, text |-> Some(generate_work_query(args)) ])
    /\ UNCHANGED << ontology, entity_type, strict, data, data_list, pc, result, added,
                    batch_result, ret, extracted, prev_extracted >>
    /\ UNCHANGED << shapes_graph, frame, redis >>

\* generate_influence_graph_query: no mapper call.
GenerateInfluenceGraphQueryCall ==
    /\ pc = "idle"
    /\ UNCHANGED << schema_info, schema_id, queries >>
    /\ \E args \in InfluenceQueryArgs :
          Generated("generate_influence_graph_query", args,
                    [ raised |-> FALSE,
                      text |-> Some(generate_influence_graph_query(args)) ])
    /\ UNCHANGED << ontology, entity_type, strict, data, data_list, pc, result, added,
                    batch_result, ret, extracted, prev_extracted >>
    /\ UNCHANGED << shapes_graph, frame, redis >>

NextGenerator ==
    \/ RefreshMappingsCall
    \/ GenerateEntityQueryCall
    \/ GenerateAuthorQueryCall
    \/ GenerateWorkQueryCall
    \/ GenerateInfluenceGraphQueryCall

SpecGenerator == InitGenerator /\ [][NextGenerator]_vars

\* ------------------------------------------- the value validators' callers
\* Elements of an object property value: strings, mappings with and
\* without a usable id, and values of other types.
ObjectElements ==
    { VStr(S_Q42), VStr(<< "Paris" >>), VStr(<< >>), VStr(WD \o S_Q42),
      VStr(WD \o << "Paris" >>), VInt(5), VInt(0), VNone,
      VDict(<< << << "qid" >>, VStr(S_Q42) >> >>),
      VDict(<< << << "value" >>, VStr(<< "Paris" >>) >> >>),
      VDict(<< << << "id" >>, VStr(WD \o S_Q42) >> >>),
      VDict(<< << << "qid" >>, VStr(<< >>) >>, << << "value" >>, VStr(S_Q42) >> >>),
      VDict(<< << << "qid" >>, VStr(<< >>) >> >>),
      VDict(<< << << "qid" >>, VInt(5) >> >>),
      VDict(<< << << "label" >>, VStr(<< "Paris" >>) >> >>),
      VDict(<< >>) }

\* The values passed to _validate_object_property: an element, a list of
\* at most two elements, a list that holds such a list.
ObjectValues ==
    LET lists == { VList(<< >>) } \cup { VList(<< e >>) : e \in ObjectElements }
                    \cup { VList(<< e, f >>) : e, f \in ObjectElements }
        short == { VList(<< >>), VList(<< VStr(<< "Paris" >>) >>),
                   VList(<< VInt(5), VStr(<< >>) >>) }
    IN  ObjectElements \cup lists
            \cup { VList(<< l, e >>) : l \in short, e \in ObjectElements }

S_Digits(a, b, c, d) == << a, b, c, d >>

S_YMD(y, m, d) == y \o << "-" >> \o m \o << "-" >> \o d

\* The texts passed as date values: the three forms with fields inside
\* and outside the calendar, BCE years, and texts of no form.
DateTexts ==
    { S_FullDate, S_Year,
      S_YMD(S_Year, << "1", "3" >>, << "0", "1" >>),
      S_YMD(S_Year, << "0", "2" >>, << "2", "9" >>),
      S_YMD(S_Year, << "0", "2" >>, << "2", "8" >>),
      S_YMD(S_Digits("1", "9", "0", "0"), << "0", "2" >>, << "2", "9" >>),
      S_YMD(S_Digits("2", "0", "0", "0"), << "0", "2" >>, << "2", "9" >>),
      S_YMD(S_Year, << "0", "4" >>, << "3", "1" >>),
      S_YMD(S_Year, << "0", "7" >>, << "0", "0" >>),
      S_YMD(S_Digits("0", "0", "0", "0"), << "0", "1" >>, << "0", "1" >>),
      S_Year \o << "-", "0", "7" >>,
      S_Year \o << "-", "0", "0" >>,
      S_Year \o << "-", "1", "3" >>,
      S_Year \o << "-", "1", "2" >>,
      S_Digits("0", "0", "0", "0"), S_Digits("0", "0", "0", "1"),
      << "-" >> \o S_Digits("0", "0", "4", "4"),
      << "-" >> \o S_Digits("0", "0", "0", "0"),
      << "-", "0", "4", "4" >>,
      << "-" >> \o S_Year \o << "-", "0", "7" >>,
      S_Year \o << "\n" >>,
      S_FullDate \o << "T", "0", "0", ":", "0", "0", ":", "0", "0" >>,
      S_Year \o << "0", "7", "2", "1" >>,
      S_Year \o << "-", "7" >>,
      << "9", "9" >>, << "soon" >>, << >> }

\* The values passed to _validate_datatype_property for a date property.
DateValues ==
    { VStr(s) : s \in DateTexts }
        \cup { VDict(<< << << "value" >>, VStr(s) >> >>) : s \in { S_FullDate, S_Year, << "soon" >> } }
        \cup { VInt(1899), VInt(13),
               VList(<< VStr(S_FullDate), VStr(<< "soon" >>) >>) }

DateRanges == { Some(XSD \o << "date" >>), Some(XSD \o << "dateTime" >>), Some(XSD \o << "gYear" >>) }

InitValue ==
    /\ ontology = OntologyPlain
    /\ schema_info = None
    /\ entity_type = << >>
    /\ strict = FALSE
    /\ data = << >>
    /\ data_list = << >>
    /\ pc = "idle"
    /\ result = << >>
    /\ added = << >>
    /\ batch_result = << >>
    /\ NoCallsYet
    /\ NoServices

ValidateObjectPropertyCall ==
    /\ pc = "idle"
    /\ \E value \in ObjectValues :
          ret' = [ op |-> "_validate_object_property", arg |-> << value >>,
                   value |-> _validate_object_property(<< "birthPlace" >>, value) ]
    /\ UNCHANGED << ontology, schema_info, schema_id, queries, entity_type, strict, data,
                    data_list, pc, result, added, batch_result, extracted, prev_extracted,
                    generated, prev_generated >>
    /\ UNCHANGED << shapes_graph, frame, redis >>

ValidateDatatypePropertyCall ==
    /\ pc = "idle"
    /\ \E value \in DateValues, expected_range \in DateRanges :
          ret' = [ op |-> "_validate_datatype_property",
                   arg |-> << value, expected_range[1] >>,
                   value |-> _validate_datatype_property(<< "birthDate" >>, value,
                                                         expected_range) ]
    /\ UNCHANGED << ontology, schema_info, schema_id, queries, entity_type, strict, data,
                    data_list, pc, result, added, batch_result, extracted, prev_extracted,
                    generated, prev_generated >>
    /\ UNCHANGED << shapes_graph, frame, redis >>

NextValue ==
    \/ ValidateObjectPropertyCall
    \/ ValidateDatatypePropertyCall

SpecValue == InitValue /\ [][NextValue]_vars

\* ------------------------------------------------- the ontology's clients
\* The rows a triple adds to the results of the two mapping queries:
\* an owl:equivalentClass triple on a declared class without one, and an
\* owl:equivalentProperty triple on a declared property without one.
LocationRow == ClassRow(LIT \o << "Location" >>, WD \o << "Q", "1", "7" >>, None, None)

DeathDateRow ==
    PropertyRow(LIT \o << "deathDate" >>, WDT \o << "P", "5", "7", "0" >>,
                << "DatatypeProperty" >>, Some(LIT \o << "Author" >>),
                Some(XSD \o << "date" >>), None)

HasRow(rows, row) == \E i \in 1..Len(rows) : rows[i] = row

\* The graph with a triple added: a triple the graph holds already adds
\* nothing.
WithClassRow(onto, row) ==
    IF HasRow(onto.class_rows, row) THEN onto
    ELSE [ onto EXCEPT !.class_rows = Append(@, row) ]

WithPropertyRow(onto, row) ==
    IF HasRow(onto.property_rows, row) THEN onto
    ELSE [ onto EXCEPT !.property_rows = Append(@, row) ]

InitStore ==
    /\ ontology \in MapperOntologies
    /\ schema_info = None
    /\ entity_type = << >>
    /\ strict = FALSE
    /\ data = << >>
    /\ data_list = << >>
    /\ pc = "idle"
    /\ result = << >>
    /\ added = << >>
    /\ batch_result = << >>
    /\ NoCallsYet
    /\ NoServices

\* OntologyService.add_triple: the triple joins the graph; the mapper is
\* not told.
AddTripleCall ==
    /\ pc = "idle"
    /\ \/ ontology' = WithClassRow(ontology, LocationRow)
       \/ ontology' = WithPropertyRow(ontology, DeathDateRow)
    /\ UNCHANGED << schema_info, schema_id, queries, entity_type, strict, data, data_list,
                    pc, result, added, batch_result, ret, extracted, prev_extracted,
                    generated, prev_generated >>
    /\ UNCHANGED << shapes_graph, frame, redis >>

\* OntologyService.load run again: the triples of the file join the graph;
\* the file is as it was, or holds a mapping it did not hold before.  The
\* mapper is not told.
LoadCall ==
    /\ pc = "idle"
    /\ \/ ontology' = ontology
       \/ ontology' = WithClassRow(ontology, LocationRow)
    /\ UNCHANGED << schema_info, schema_id, queries, entity_type, strict, data, data_list,
                    pc, result, added, batch_result, ret, extracted, prev_extracted,
                    generated, prev_generated >>
    /\ UNCHANGED << shapes_graph, frame, redis >>

NextStore ==
    \/ ExtractMappingsCall
    \/ AddTripleCall
    \/ LoadCall

SpecStore == InitStore /\ [][NextStore]_vars

\* ------------------------------------------------------------------- rdflib
\* The terms of an RDF graph: << kind, text, datatype >>.
URIRef(s) == << "uri", s, << >> >>

BNode(id) == << "bnode", << id >>, << >> >>

Literal(s, datatype) == << "literal", s, datatype >>

IsBNode(o) == o[1] = "bnode"

DATA == << "http:", "/", "/", "literature-explorer.org", "/", "data", "/" >>

SH(name) == URIRef(<< "http:", "/", "/", "www.w3.org", "/", "ns", "/", "shacl", "#", name >>)

RDF_type == URIRef(<< "http:", "/", "/", "www.w3.org", "/", "1999", "/", "02", "/",
                      "22-rdf-syntax-ns", "#", "type" >>)

\* Graph.predicate_objects(subject)
predicate_objects(graph, subject) ==
    { << t[2], t[3] >> : t \in { u \in graph : u[1] = subject } }

\* ------------------------------------------------- SHACLValidator._filter_shapes
\* str.startswith("http://")
StartsWithHttp(s) == Len(s) >= 3 /\ SubSeq(s, 1, 3) = << "http:", "/", "/" >>

\* A shape name is a full URI or a local name of the ontology namespace.
ShapeUri(shape_name) ==
    IF StartsWithHttp(shape_name) THEN URIRef(shape_name) ELSE URIRef(LIT \o shape_name)

\* The local variables after the loop over shape_names: the triples of the
\* named shapes, and the blank nodes that are objects of these triples.
FilterBegin(graph, shape_names) ==
    LET uris == { ShapeUri(shape_names[i]) : i \in 1..Len(shape_names) }
        own == { t \in graph : t[1] \in uris }
    IN  [ op |-> "_filter_shapes",
          shape_names |-> shape_names,
          triples_to_copy |-> own,
          blank_nodes_to_process |-> { t[3] : t \in { u \in own : IsBNode(u[3]) } },
          processed_bnodes |-> { },
          filtered |-> { },
          returned |-> FALSE ]

\* One iteration of the while loop, set.pop() having given bnode; this
\* variant processes a blank node again every time it is met.
FilterStep_reprocesses(graph, f, bnode) ==
    LET rest == f.blank_nodes_to_process \ { bnode }
        po == predicate_objects(graph, bnode)
    IN  [ f EXCEPT !.processed_bnodes = @ \cup { bnode },
                   !.triples_to_copy = @ \cup { << bnode, x[1], x[2] >> : x \in po },
                   !.blank_nodes_to_process =
                       rest \cup { x[2] : x \in { y \in po : IsBNode(y[2]) } } ]

\* One iteration of the while loop, set.pop() having given bnode.
FilterStep(graph, f, bnode) ==
    LET rest == f.blank_nodes_to_process \ { bnode }
        po == predicate_objects(graph, bnode)
    IN  IF bnode \in f.processed_bnodes
        THEN [ f EXCEPT !.blank_nodes_to_process = rest ]
        ELSE [ f EXCEPT !.processed_bnodes = @ \cup { bnode },
                        !.triples_to_copy = @ \cup { << bnode, x[1], x[2] >> : x \in po },
                        !.blank_nodes_to_process =
                            rest \cup { x[2] : x \in { y \in po : IsBNode(y[2]) } } ]

\* The collected triples are added to the new graph, which is returned.
FilterEnd(f) == [ f EXCEPT !.filtered = f.triples_to_copy, !.returned = TRUE ]

RECURSIVE FilterLoop(_, _)
FilterLoop(graph, f) ==
    IF f.blank_nodes_to_process = { }
    THEN FilterEnd(f)
    ELSE FilterLoop(graph, FilterStep(graph, f, CHOOSE b \in f.blank_nodes_to_process : TRUE))

_filter_shapes(graph, shape_names) == FilterLoop(graph, FilterBegin(graph, shape_names)).filtered

\* str(shape).split("#")[-1], or split("/")[-1] for a URI without "#"
LocalNameOf(s) ==
    IF \E i \in 1..Len(s) : s[i] = "#"
    THEN SubSeq(s, LastIndexOf(s, "#") + 1, Len(s))
    ELSE SubSeq(s, LastIndexOf(s, "/") + 1, Len(s))

\* The names of the node shapes, as a set: the order of a graph's subjects
\* is not defined.
_get_all_shape_names(graph) ==
    { LocalNameOf(t[1][2]) : t \in { u \in graph : u[2] = RDF_type /\ u[3] = SH("NodeShape") } }

\* ------------------------------------------------- SHACLValidator._json_to_rdf
RDFS == << "http:", "/", "/", "www.w3.org", "/", "2000", "/", "01", "/", "rdf-schema", "#" >>

\* str.lower() on the words that name entity types; any other symbol has no
\* upper-case letter in the inputs.
LowerWord(w) ==
    CASE w = "Author" -> "author"
      [] w = "LiteraryWork" -> "literarywork"
      [] w = "Novel" -> "novel"
      [] w = "Genre" -> "genre"
      [] w = "Location" -> "location"
      [] w = "LiteraryMovement" -> "literarymovement"
      [] w = "Publisher" -> "publisher"
      [] w = "Award" -> "award"
      [] w = "Entity" -> "entity"
      [] w = "Bogus" -> "bogus"
      [] OTHER -> w

Lower(s) == [ i \in 1..Len(s) |-> LowerWord(s[i]) ]

\* An entry of a property map: JSON key -> (property, datatype, is_object).
DatatypeKey(key, local, datatype) ==
    << << key >>, << URIRef(LIT \o << local >>), XSD \o << datatype >>, FALSE >> >>

ObjectKey(key, local) == << << key >>, << URIRef(LIT \o << local >>), << >>, TRUE >> >>

common_map ==
    << DatatypeKey("name", "name", "string"),
       << << "label" >>, << URIRef(RDFS \o << "label" >>), XSD \o << "string" >>, FALSE >> >>,
       DatatypeKey("description", "description", "string") >>

_get_property_map(type) ==
    CASE type = << "Author" >> ->
            common_map \o
            << DatatypeKey("birthDate", "birthDate", "date"),
               DatatypeKey("deathDate", "deathDate", "date"),
               ObjectKey("birthPlace", "birthPlace"),
               ObjectKey("deathPlace", "deathPlace"),
               ObjectKey("citizenship", "citizenship"),
               ObjectKey("influencedBy", "influencedBy"),
               ObjectKey("studentOf", "studentOf"),
               ObjectKey("partOfMovement", "partOfMovement"),
               ObjectKey("awards", "receivedAward"),
               ObjectKey("notableWorks", "wroteWork") >>
      [] type = << "LiteraryWork" >> ->
            common_map \o
            << ObjectKey("author", "writtenBy"),
               ObjectKey("writtenBy", "writtenBy"),
               DatatypeKey("publicationDate", "publicationDate", "date"),
               DatatypeKey("publishedIn", "publishedIn", "gYear"),
               ObjectKey("genre", "hasGenre"),
               ObjectKey("language", "writtenInLanguage"),
               ObjectKey("publisher", "hasPublisher"),
               ObjectKey("setting", "hasSetting"),
               ObjectKey("characters", "hasCharacter") >>
      [] type = << "Novel" >> ->
            common_map \o
            << ObjectKey("author", "writtenBy"),
               ObjectKey("writtenBy", "writtenBy"),
               DatatypeKey("publicationDate", "publicationDate", "date"),
               DatatypeKey("publishedIn", "publishedIn", "gYear"),
               ObjectKey("genre", "hasGenre"),
               ObjectKey("language", "writtenInLanguage"),
               ObjectKey("publisher", "hasPublisher"),
               ObjectKey("setting", "hasSetting"),
               DatatypeKey("pageCount", "pageCount", "integer") >>
      [] type = << "Genre" >> -> common_map
      [] type = << "Location" >> ->
            common_map \o
            << ObjectKey("country", "locatedIn"),
               DatatypeKey("coordinates", "coordinates", "string") >>
      [] type = << "LiteraryMovement" >> ->
            common_map \o
            << DatatypeKey("startDate", "startDate", "date"),
               DatatypeKey("endDate", "endDate", "date"),
               ObjectKey("country", "originCountry") >>
      [] type = << "Publisher" >> ->
            common_map \o
            << DatatypeKey("foundedDate", "foundedDate", "date"),
               ObjectKey("headquarters", "headquartersLocation") >>
      [] type = << "Award" >> -> common_map \o << ObjectKey("forWork", "awardedFor") >>
      [] OTHER -> common_map

_infer_type_from_property(property_name) ==
    CASE property_name \in { << "birthPlace" >>, << "deathPlace" >>, << "citizenship" >>,
                             << "setting" >>, << "hasSetting" >> } -> << "Location" >>
      [] property_name \in { << "author" >>, << "writtenBy" >>, << "influencedBy" >>,
                             << "studentOf" >> } -> << "Author" >>
      [] property_name \in { << "genre" >>, << "hasGenre" >> } -> << "Genre" >>
      [] property_name \in { << "publisher" >>, << "hasPublisher" >> } -> << "Publisher" >>
      [] property_name = << "partOfMovement" >> -> << "LiteraryMovement" >>
      [] property_name \in { << "awards" >>, << "receivedAward" >> } -> << "Award" >>
      [] OTHER -> << "Entity" >>

\* data.get("qid", data.get("id", "unknown")) on the entries of a mapping
QidOrId(d) ==
    IF DictHas(d, << "qid" >>) THEN DictGet(d, << "qid" >>)
    ELSE IF DictHas(d, << "id" >>) THEN DictGet(d, << "id" >>)
    ELSE VStr(<< "unknown" >>)

\* DATA[f"{kind}/{id}"]
DataUri(kind, id) == URIRef(DATA \o kind \o << "/" >> \o PyStr(id))

\* The outcome of a conversion: an exception, or a graph.
Raised == [ raised |-> TRUE, graph |-> { } ]

Converted(graph) == [ raised |-> FALSE, graph |-> graph ]

\* The references an element of a list value adds.
ListReference(entity_uri, prop_uri, item) ==
    CASE item[1] = "dict" ->
            { << entity_uri, prop_uri, DataUri(<< "entity" >>, QidOrId(item[2])) >> }
      [] item[1] = "str" -> { << entity_uri, prop_uri, DataUri(<< "entity" >>, item) >> }
      [] OTHER -> { }

RECURSIVE _json_to_rdf(_, _, _)
\* The triples one entry of the data adds; ref_type.lower() raises when the
\* "type" of a nested entity is not a string.
EntryRdf(type, entity_uri, key, value, include_related) ==
    LET property_map == _get_property_map(type)
        entry == DictGet(property_map, key)
        prop_uri == entry[1]
        datatype == entry[2]
        is_object == entry[3]
        ref_type == ValueGet(value, << "type" >>, VStr(_infer_type_from_property(key)))
        reference == << entity_uri, prop_uri,
                        DataUri(Lower(ref_type[2]), QidOrId(value[2])) >>
        related == _json_to_rdf(ref_type[2], value[2], FALSE)
    IN  IF key \in { << "qid" >>, << "id" >>, << "type" >> } THEN Converted({ })
        ELSE IF ~DictHas(property_map, key) THEN Converted({ })
        ELSE IF value = VNone THEN Converted({ })
        ELSE IF is_object
        THEN CASE value[1] = "dict" ->
                     IF ref_type[1] # "str" THEN Raised
                     ELSE IF include_related /\ Truthy(ref_type)
                     THEN IF related.raised THEN Raised
                          ELSE Converted({ reference } \cup related.graph)
                     ELSE Converted({ reference })
               [] value[1] = "str" ->
                     Converted({ << entity_uri, prop_uri, DataUri(<< "entity" >>, value) >> })
               [] value[1] = "list" ->
                     Converted(UNION { ListReference(entity_uri, prop_uri, value[2][i]) :
                                       i \in 1..Len(value[2]) })
               [] OTHER -> Converted({ })
        ELSE IF value[1] = "list"
        THEN Converted({ << entity_uri, prop_uri, Literal(PyStr(value[2][i]), datatype) >> :
                         i \in 1..Len(value[2]) })
        ELSE Converted({ << entity_uri, prop_uri, Literal(PyStr(value), datatype) >> })

\* The graph of an entity: its type triple and the triples of its entries.
_json_to_rdf(type, d, include_related) ==
    LET entity_uri == DataUri(Lower(type), QidOrId(d))
        entries == [ i \in 1..Len(d) |->
                       EntryRdf(type, entity_uri, d[i][1], d[i][2], include_related) ]
    IN  IF \E i \in 1..Len(d) : entries[i].raised THEN Raised
        ELSE Converted({ << entity_uri, RDF_type, URIRef(LIT \o type) >> }
                       \cup UNION { entries[i].graph : i \in 1..Len(d) })

\* ------------------------------------------------- SHACLValidator.validate_rdf
\* A text of RDF data: the syntax it is written in and the graph it
\* denotes; a text written in no RDF syntax denotes none.
RdfText(syntax, graph) == << syntax, graph >>

\* Graph.serialize(format="turtle")
Serialize(graph) == RdfText("turtle", graph)

format_map(data_format) ==
    CASE data_format = "turtle" -> "turtle"
      [] data_format = "json-ld" -> "json-ld"
      [] data_format = "n-triples" -> "nt"
      [] data_format = "xml" -> "xml"
      [] data_format = "n3" -> "n3"
      [] OTHER -> data_format

\* Graph.parse(data, format) raises unless the text is written in the syntax
\* of the parser.
ParseRaises(text, rdf_format) == text[1] # rdf_format

SHACLSeverity == { "Violation", "Warning", "Info" }

_parse_severity(severity_uri) ==
    IF IsNone(severity_uri) THEN "Violation"
    ELSE IF \E i \in 1..Len(severity_uri[1]) : severity_uri[1][i] = "Warning" THEN "Warning"
    ELSE IF \E i \in 1..Len(severity_uri[1]) : severity_uri[1][i] = "Info" THEN "Info"
    ELSE "Violation"

SHACLValidationViolation(focus_node, source_shape, severity) ==
    [ focus_node |-> focus_node, source_shape |-> source_shape, severity |-> severity ]

\* str(x) if x else default, on an optional node of the results graph
StrOr(o, default) == IF IsNone(o) THEN default ELSE o[1]

_extract_violations_from_report(report) ==
    [ i \in 1..Len(report) |->
        SHACLValidationViolation(StrOr(report[i].focus_node, << "unknown" >>),
                                 StrOr(report[i].source_shape, << "unknown" >>),
                                 _parse_severity(report[i].severity)) ]

SHACLValidationResult(conforms, shapes_used) ==
    [ raised |-> FALSE, conforms |-> conforms, violations |-> << >>,
      shapes_used |-> shapes_used ]

add_violation(r, violation) == [ r EXCEPT !.violations = Append(@, violation) ]

RECURSIVE AddViolations(_, _)
AddViolations(r, violations) ==
    IF violations = << >> THEN r
    ELSE AddViolations(add_violation(r, Head(violations)), Tail(violations))

\* The call did not return: an exception left it.
CallRaised == [ raised |-> TRUE, conforms |-> FALSE, violations |-> << >>, shapes_used |-> { } ]

NamesOf(target_shapes) == { target_shapes[i] : i \in 1..Len(target_shapes) }

\* The shapes graph the engine is given: the validator's, or the part of it
\* that target_shapes names.
shapes_to_use(shapes, target_shapes) ==
    IF target_shapes # << >> THEN _filter_shapes(shapes, target_shapes) ELSE shapes

\* engine is what pyshacl's validate does with the graphs it is given: it
\* raises, or it gives a verdict and a report.
validate_rdf(shapes, text, data_format, target_shapes, engine) ==
        IF ParseRaises(text, format_map(data_format))
        THEN add_violation(SHACLValidationResult(FALSE, { }),
                           SHACLValidationViolation(<< "data_graph" >>, << "parsing" >>,
                                                    "Violation"))
        ELSE IF engine.raised
        THEN add_violation(SHACLValidationResult(FALSE, NamesOf(target_shapes)),
                           SHACLValidationViolation(<< "validation" >>, << "shacl_engine" >>,
                                                    "Violation"))
        ELSE AddViolations(
                 SHACLValidationResult(engine.conforms,
                                       IF target_shapes # << >> THEN NamesOf(target_shapes)
                                       ELSE _get_all_shape_names(shapes)),
                 _extract_violations_from_report(engine.report))

validate_json(shapes, type, d, include_related, engine) ==
    LET converted == _json_to_rdf(type, d, include_related)
    IN  IF converted.raised THEN CallRaised
        ELSE validate_rdf(shapes, Serialize(converted.graph), "turtle",
                          << type \o << "Shape" >> >>, engine)

\* ------------------------------------------------- the SHACL validator's callers
AuthorShape == URIRef(LIT \o << "AuthorShape" >>)

LocationShape == URIRef(LIT \o << "LocationShape" >>)

\* A shapes file whose property shapes are blank nodes with constraints.
ShapesPlain ==
    { << AuthorShape, RDF_type, SH("NodeShape") >>,
      << AuthorShape, SH("property"), BNode("b1") >>,
      << BNode("b1"), SH("path"), URIRef(LIT \o << "name" >>) >>,
      << BNode("b1"), SH("minCount"), Literal(<< "1" >>, XSD \o << "integer" >>) >>,
      << LocationShape, RDF_type, SH("NodeShape") >>,
      << LocationShape, SH("property"), BNode("b2") >>,
      << BNode("b2"), SH("path"), URIRef(LIT \o << "country" >>) >> }

\* A shapes file whose blank nodes name each other: b1 and b2 in a cycle, b3
\* naming itself, b4 naming b1 and named by no shape.
ShapesCyclic ==
    { << AuthorShape, RDF_type, SH("NodeShape") >>,
      << AuthorShape, SH("property"), BNode("b1") >>,
      << AuthorShape, SH("property"), BNode("b3") >>,
      << BNode("b1"), SH("node"), BNode("b2") >>,
      << BNode("b2"), SH("node"), BNode("b1") >>,
      << BNode("b2"), SH("path"), URIRef(LIT \o << "name" >>) >>,
      << BNode("b3"), SH("not"), BNode("b3") >>,
      << BNode("b4"), SH("node"), BNode("b1") >>,
      << LocationShape, RDF_type, SH("NodeShape") >>,
      << LocationShape, SH("property"), BNode("b5") >>,
      << BNode("b5"), SH("node"), BNode("b2") >> }

\* A shapes file whose blank nodes nest: a list of alternatives under a
\* property shape.
ShapesNested ==
    { << AuthorShape, RDF_type, SH("NodeShape") >>,
      << AuthorShape, SH("property"), BNode("b1") >>,
      << BNode("b1"), SH("or"), BNode("b2") >>,
      << BNode("b2"), SH("first"), BNode("b3") >>,
      << BNode("b2"), SH("rest"), BNode("b4") >>,
      << BNode("b3"), SH("datatype"), URIRef(XSD \o << "date" >>) >>,
      << BNode("b4"), SH("first"), BNode("b5") >>,
      << BNode("b5"), SH("datatype"), URIRef(XSD \o << "gYear" >>) >> }

ShapesGraphs == { ShapesPlain, ShapesCyclic, ShapesNested, { } }

TargetShapes ==
    { << >>,
      << << "AuthorShape" >> >>,
      << << "LocationShape" >>, << "AuthorShape" >> >>,
      << LIT \o << "LocationShape" >> >>,
      << << "BogusShape" >> >> }

S_Q350 == << "Q", "3", "5", "0" >>

DataTriple ==
    << DataUri(<< "author" >>, VStr(S_Q42)), RDF_type, URIRef(LIT \o << "Author" >>) >>

RdfTexts == { RdfText("turtle", { DataTriple }), RdfText("nt", { DataTriple }),
              RdfText("turtle", { }), RdfText("garbage", { }) }

DataFormats == { "turtle", "n-triples", "bogus" }

ReportEntry(focus_node, source_shape, severity) ==
    [ focus_node |-> focus_node, source_shape |-> source_shape, severity |-> severity ]

EngineOutcome(raised, conforms, report) ==
    [ raised |-> raised, conforms |-> conforms, report |-> report ]

EngineOutcomes ==
    { EngineOutcome(TRUE, FALSE, << >>),
      EngineOutcome(FALSE, TRUE, << >>),
      EngineOutcome(FALSE, FALSE,
                    << ReportEntry(Some(<< "data:", "author/Q42" >>), Some(<< "AuthorShape" >>),
                                   Some(<< "sh:", "Violation" >>)) >>),
      EngineOutcome(FALSE, FALSE,
                    << ReportEntry(Some(<< "data:", "author/Q42" >>), None, None),
                       ReportEntry(None, Some(<< "AuthorShape" >>),
                                   Some(<< "sh:", "Warning" >>)) >>) }

PlaceOf(entries) == << << "birthPlace" >>, VDict(entries) >>

\* JSON data of an entity: well-formed, and malformed in the "type" of a
\* nested entity.
ShaclData ==
    { << >>,
      << << << "qid" >>, VStr(S_Q42) >>, << << "name" >>, VStr(<< "Douglas" >>) >> >>,
      << << << "qid" >>, VStr(S_Q42) >>, << << "birthPlace" >>, VStr(S_Q350) >> >>,
      << << << "id" >>, VInt(42) >>, PlaceOf(<< << << "qid" >>, VStr(S_Q350) >> >>) >>,
      << << << "qid" >>, VStr(S_Q42) >>,
         PlaceOf(<< << << "qid" >>, VStr(S_Q350) >>,
                    << << "type" >>, VStr(<< "Location" >>) >>,
                    << << "name" >>, VStr(<< "Cambridge" >>) >> >>) >>,
      << << << "qid" >>, VStr(S_Q42) >>,
         PlaceOf(<< << << "qid" >>, VStr(S_Q350) >>, << << "type" >>, VStr(<< >>) >> >>) >>,
      << << << "qid" >>, VStr(S_Q42) >>,
         PlaceOf(<< << << "qid" >>, VStr(S_Q350) >>, << << "type" >>, VNone >> >>) >>,
      << << << "qid" >>, VStr(S_Q42) >>,
         PlaceOf(<< << << "qid" >>, VStr(S_Q350) >>, << << "type" >>, VInt(5) >> >>) >>,
      << << << "qid" >>, VStr(S_Q42) >>,
         PlaceOf(<< << << "qid" >>, VStr(S_Q350) >>,
                    << << "type" >>, VStr(<< "Location" >>) >>,
                    << << "country" >>,
                       VDict(<< << << "qid" >>, VStr(<< "Q", "1" >>) >>,
                                << << "type" >>, VNone >> >>) >> >>) >>,
      << << << "qid" >>, VStr(S_Q42) >>,
         << << "birthDate" >>, VInt(1952) >>,
         << << "deathDate" >>, VNone >>,
         << << "bogus" >>, VInt(1) >>,
         << << "awards" >>,
            VList(<< VStr(<< "Q", "1" >>), VDict(<< << << "id" >>, VInt(2) >> >>),
                     VInt(3) >>) >> >> }

ShaclTypes == { << "Author" >>, << "Bogus" >> }

\* The validator is constructed: its shapes file is loaded.
InitShacl ==
    /\ ontology = OntologyPlain
    /\ schema_info = None
    /\ entity_type = << >>
    /\ strict = FALSE
    /\ data = << >>
    /\ data_list = << >>
    /\ pc = "idle"
    /\ result = << >>
    /\ added = << >>
    /\ batch_result = << >>
    /\ NoCallsYet
    /\ shapes_graph \in ShapesGraphs
    /\ frame = NoFrame
    /\ redis = << >>

ValidateRdfCall ==
    /\ pc = "idle"
    /\ \E text \in RdfTexts, data_format \in DataFormats, target_shapes \in TargetShapes,
          engine \in EngineOutcomes :
          ret' = [ op |-> "validate_rdf",
                   arg |-> << text, data_format, target_shapes >>,
                   engine |-> engine,
                   shacl_graph |-> shapes_to_use(shapes_graph, target_shapes),
                   value |-> validate_rdf(shapes_graph, text, data_format, target_shapes,
                                          engine) ]
    /\ UNCHANGED << validatorVars, pc, shapes_graph, frame, redis >>

ValidateJsonCall ==
    /\ pc = "idle"
    /\ \E type \in ShaclTypes, d \in ShaclData, include_related \in BOOLEAN,
          engine \in EngineOutcomes :
          ret' = [ op |-> "validate_json",
                   arg |-> << type, d, include_related >>,
                   engine |-> engine,
                   shacl_graph |-> shapes_to_use(shapes_graph, << type \o << "Shape" >> >>),
                   value |-> validate_json(shapes_graph, type, d, include_related, engine) ]
    /\ UNCHANGED << validatorVars, pc, shapes_graph, frame, redis >>

\* reload_shapes reads the shapes file again, whatever it holds by then.
ReloadShapesCall ==
    /\ pc = "idle"
    /\ shapes_graph' \in ShapesGraphs
    /\ UNCHANGED << validatorVars, pc, ret, frame, redis >>

NextShacl ==
    \/ ValidateRdfCall
    \/ ValidateJsonCall
    \/ ReloadShapesCall

SpecShacl == InitShacl /\ [][NextShacl]_vars

\* ------------------------------------------------- _filter_shapes, step by step
FilterTargets == TargetShapes \cup { << << "AuthorShape" >>, << "AuthorShape" >> >> }

InitFilter ==
    /\ ontology = OntologyPlain
    /\ schema_info = None
    /\ entity_type = << >>
    /\ strict = FALSE
    /\ data = << >>
    /\ data_list = << >>
    /\ pc = "idle"
    /\ result = << >>
    /\ added = << >>
    /\ batch_result = << >>
    /\ NoCallsYet
    /\ shapes_graph \in ShapesGraphs
    /\ frame = NoFrame
    /\ redis = << >>

\* The call, up to the while loop.
FilterShapesCall ==
    /\ NoneRunning
    /\ \E shape_names \in FilterTargets : frame' = FilterBegin(shapes_graph, shape_names)
    /\ UNCHANGED << validatorVars, pc, ret, shapes_graph, redis >>

\* One iteration of the while loop: set.pop() gives any element.
FilterShapesIterate ==
    /\ frame.op = "_filter_shapes"
    /\ ~frame.returned
    /\ \E bnode \in frame.blank_nodes_to_process :
          frame' = FilterStep(shapes_graph, frame, bnode)
    /\ UNCHANGED << validatorVars, pc, ret, shapes_graph, redis >>

\* The loop is left, the new graph is filled and returned.
FilterShapesReturn ==
    /\ frame.op = "_filter_shapes"
    /\ ~frame.returned
    /\ frame.blank_nodes_to_process = { }
    /\ frame' = FilterEnd(frame)
    /\ UNCHANGED << validatorVars, pc, ret, shapes_graph, redis >>

NextFilter ==
    \/ FilterShapesCall
    \/ FilterShapesIterate
    \/ FilterShapesReturn

SpecFilter == InitFilter /\ [][NextFilter]_vars

\* A call that has begun goes on: the method is synchronous code that
\* nothing suspends.
SpecFilterFair ==
    SpecFilter /\ WF_vars(FilterShapesIterate) /\ WF_vars(FilterShapesReturn)

\* ------------------------------------------------------------- json and Redis
RECURSIVE json_dumps(_)
RECURSIVE DumpItems(_)
RECURSIVE DumpEntries(_)
\* The elements of a list, each serialized, with commas between them.
DumpItems(items) ==
    IF items = << >> THEN << >>
    ELSE IF Len(items) = 1 THEN json_dumps(items[1])
    ELSE json_dumps(items[1]) \o << "," >> \o DumpItems(Tail(items))

\* The entries of a mapping, each serialized, with commas between them.
DumpEntries(entries) ==
    IF entries = << >> THEN << >>
    ELSE LET first == << "\"" >> \o entries[1][1] \o << "\"", ":" >> \o json_dumps(entries[1][2])
         IN  IF Len(entries) = 1 THEN first
             ELSE first \o << "," >> \o DumpEntries(Tail(entries))

\* json.dumps(value): the text of a JSON value.
json_dumps(x) ==
    CASE x[1] = "none" -> << "null" >>
      [] x[1] = "str" -> << "\"" >> \o x[2] \o << "\"" >>
      [] x[1] = "int" -> IntToStr(x[2])
      [] x[1] = "list" -> << "[" >> \o DumpItems(x[2]) \o << "]" >>
      [] x[1] = "dict" -> << "{" >> \o DumpEntries(x[2]) \o << "}" >>

\* A book, with the one field the model keeps of it.
Book(qid) == [ qid |-> qid ]

\* Book.model_dump() and Book(**b)
model_dump(book) == VDict(<< << << "qid" >>, VStr(book.qid) >> >>)

BookFrom(b) == Book(DictGet(b[2], << "qid" >>)[2])

S_Q1 == << "Q", "1" >>

S_Q2 == << "Q", "2" >>

BookLists == { << >>, << Book(S_Q1) >>, << Book(S_Q1), Book(S_Q2) >> }

DumpOf(books) == VList([ i \in 1..Len(books) |-> model_dump(books[i]) ])

\* What a fetch function can give.
FetchResults ==
    { VNone, VInt(0), VList(<< >>), VList(<< VStr(S_Q1) >>),
      VDict(<< << << "name" >>, VStr(<< "Douglas" >>) >> >>) }

\* The JSON values the model ever serializes.
JsonValues == FetchResults \cup { DumpOf(books) : books \in BookLists }

\* json.loads(text): the value the text denotes.
json_loads(text) == CHOOSE x \in JsonValues : json_dumps(x) = text

\* DictSet's counterpart: the entries without the one of key k.
DictRemove(d, k) == SelectSeq(d, LAMBDA e : e[1] # k)

\* ------------------------------------------------------------- CacheService
\* CacheService.get: reachable is false when there is no client or the
\* command raises RedisError; an empty text counts as no entry.
CacheGet(entries, key, reachable) ==
    IF ~reachable THEN VNone
    ELSE IF DictHas(entries, key) /\ Len(DictGet(entries, key)) > 0
    THEN json_loads(DictGet(entries, key))
    ELSE VNone

\* CacheService.set: the entries of the server after the call.
CacheSet(entries, key, value, reachable) ==
    IF ~reachable THEN entries ELSE DictSet(entries, key, json_dumps(value))

\* What a call of a caching operation did: stored is the entry its key had
\* when the call began, fetched tells whether it ran the fetch.
Served(op, arg, get_ok, set_ok, stored, fetched, raised, value) ==
    [ op |-> op, arg |-> arg, get_ok |-> get_ok, set_ok |-> set_ok, stored |-> stored,
      fetched |-> fetched, raised |-> raised, value |-> value ]

StoredAt(entries, key) == IF DictHas(entries, key) THEN Some(DictGet(entries, key)) ELSE None

\* get_or_fetch: cached is not None
IsHit(cached) == cached # VNone

\* CacheService.get_or_fetch: the record of the call and the server's
\* entries after it; fetch_fn is what the fetch gives if it is run.
get_or_fetch(entries, cache_key, fetch_fn, get_ok, set_ok) ==
    LET cached == CacheGet(entries, cache_key, get_ok)
        stored == StoredAt(entries, cache_key)
    IN  IF IsHit(cached)
        THEN [ call |-> Served("get_or_fetch", << cache_key >>, get_ok, set_ok, stored,
                               FALSE, FALSE, cached),
               entries |-> entries ]
        ELSE [ call |-> Served("get_or_fetch", << cache_key >>, get_ok, set_ok, stored,
                               TRUE, FALSE, fetch_fn),
               entries |-> CacheSet(entries, cache_key, fetch_fn, set_ok) ]

\* ------------------------------------------------------------- SearchService
\* x or "" in a cache key parameter
StrOrEmpty(o) == IF IsNone(o) THEN << >> ELSE o[1]

IntOrEmpty(o) == IF IsNone(o) \/ o[1] = 0 THEN << >> ELSE IntToStr(o[1])

\* The digest is kept as its input: distinct inputs give distinct keys.
sha256(s) == << "sha256:" >> \o s

\* WikidataClient.generate_cache_key: params by sorted name
generate_cache_key(query, params) ==
    sha256(Join(<< query >> \o [ i \in 1..Len(params) |->
                                    params[i][1] \o << "=" >> \o params[i][2] ],
                << "|" >>))

max_query_limit == 500

Min(a, b) == IF a < b THEN a ELSE b

SearchCacheKey(args) ==
    generate_cache_key(<< "search_books" >>,
                       << << << "country" >>, StrOrEmpty(args.country_qid) >>,
                          << << "genre" >>, << >> >>,
                          << << "limit" >>, IntToStr(Min(args.limit, max_query_limit)) >>,
                          << << "location" >>, << >> >>,
                          << << "offset" >>, IntToStr(0) >>,
                          << << "year_end" >>, << >> >>,
                          << << "year_start" >>, IntOrEmpty(args.year_start) >> >>)
    \o << "_v2" >>

\* SearchService._parse_book_results: one book for each distinct non-empty
\* identifier, in the order of first occurrence.
RECURSIVE ParseBooks(_, _)
ParseBooks(rows, books) ==
    IF rows = << >> THEN books
    ELSE LET qid == Head(rows)
         IN  IF qid = << >> \/ \E i \in 1..Len(books) : books[i].qid = qid
             THEN ParseBooks(Tail(rows), books)
             ELSE ParseBooks(Tail(rows), Append(books, Book(qid)))

_parse_book_results(results) == ParseBooks(results, << >>)

\* SearchService.search_books: the record of the call and the server's
\* entries after it; outcome is what execute_query does if it is called.
search_books(entries, args, outcome, get_ok, set_ok) ==
    LET cache_key == SearchCacheKey(args)
        cached == CacheGet(entries, cache_key, get_ok)
        stored == StoredAt(entries, cache_key)
        books == _parse_book_results(outcome.rows)
    IN  IF Truthy(cached)
        THEN [ call |-> Served("search_books", args, get_ok, set_ok, stored, FALSE, FALSE,
                               [ i \in 1..Len(cached[2]) |-> BookFrom(cached[2][i]) ]),
               entries |-> entries ]
        ELSE IF outcome.raised
        THEN [ call |-> Served("search_books", args, get_ok, set_ok, stored, TRUE, TRUE,
                               << >>),
               entries |-> entries ]
        ELSE [ call |-> Served("search_books", args, get_ok, set_ok, stored, TRUE, FALSE,
                               books),
               entries |-> CacheSet(entries, cache_key, DumpOf(books), set_ok) ]

\* ------------------------------------------------------- the cache's clients
S_Q30 == << "Q", "3", "0" >>

SearchArgs(country_qid, year_start, limit) ==
    [ country_qid |-> country_qid, year_start |-> year_start, limit |-> limit ]

SearchArgsSet == { SearchArgs(None, None, 50), SearchArgs(Some(S_Q30), Some(1900), 50) }

QueryOutcome(raised, rows) == [ raised |-> raised, rows |-> rows ]

QueryOutcomes ==
    { QueryOutcome(TRUE, << >>),
      QueryOutcome(FALSE, << >>),
      QueryOutcome(FALSE, << S_Q1 >>),
      QueryOutcome(FALSE, << S_Q1, << >>, S_Q2, S_Q1 >>) }

FetchKeys == { << "author:", "Q", "4", "2" >> }

InitCache ==
    /\ ontology = OntologyPlain
    /\ schema_info = None
    /\ entity_type = << >>
    /\ strict = FALSE
    /\ data = << >>
    /\ data_list = << >>
    /\ pc = "idle"
    /\ result = << >>
    /\ added = << >>
    /\ batch_result = << >>
    /\ NoCallsYet
    /\ NoServices

GetOrFetchCall ==
    /\ \E cache_key \in FetchKeys, fetch_fn \in FetchResults, get_ok \in BOOLEAN,
          set_ok \in BOOLEAN :
          LET done == get_or_fetch(redis, cache_key, fetch_fn, get_ok, set_ok)
          IN  /\ ret' = done.call
              /\ redis' = done.entries
    /\ UNCHANGED << validatorVars, pc, shapes_graph, frame >>

SearchBooksCall ==
    /\ \E args \in SearchArgsSet, outcome \in QueryOutcomes, get_ok \in BOOLEAN,
          set_ok \in BOOLEAN :
          LET done == search_books(redis, args, outcome, get_ok, set_ok)
          IN  /\ ret' = done.call
              /\ redis' = done.entries
    /\ UNCHANGED << validatorVars, pc, shapes_graph, frame >>

\* The time to live of an entry runs out: the server drops it.
ExpireEntry ==
    /\ \E i \in 1..Len(redis) : redis' = DictRemove(redis, redis[i][1])
    /\ UNCHANGED << validatorVars, pc, ret, shapes_graph, frame >>

NextCache ==
    \/ GetOrFetchCall
    \/ SearchBooksCall
    \/ ExpireEntry

SpecCache == InitCache /\ [][NextCache]_vars

\* ------------------------------------------------ WikidataClient.execute_query
\* What one HTTP attempt can meet: a status code with what matters of the
\* body, or an exception of the HTTP library.
Responses ==
    { "200", "200 not JSON", "429", "502", "503", "500 timeout", "500", "404",
      "TimeoutException", "ConnectError" }

\* What one run of the method does with the response: it returns, or it
\* raises the exception named.
AttemptOutcome(response) ==
    CASE response = "429" -> "WikidataRateLimitError"
      [] response = "502" -> "WikidataServiceError"
      [] response = "503" -> "WikidataServiceError"
      [] response = "500 timeout" -> "WikidataTimeoutError"
      [] response = "500" -> "WikidataError"
      [] response = "404" -> "WikidataError"
      [] response = "TimeoutException" -> "WikidataTimeoutError"
      [] response = "ConnectError" -> "ConnectError"
      [] response = "200 not JSON" -> "JSONDecodeError"
      [] response = "200" -> "return"

\* stop=stop_after_attempt(5)
stop_after_attempt == 5

\* This variant retries after a timeout as well.
retry_if_exception_type_timeout(outcome) ==
    outcome \in { "WikidataServiceError", "WikidataRateLimitError", "WikidataTimeoutError" }

\* retry=retry_if_exception_type((WikidataServiceError, WikidataRateLimitError))
retry_if_exception_type(outcome) ==
    outcome \in { "WikidataServiceError", "WikidataRateLimitError" }

\* The local state of a call that has made no attempt yet.
QueryBegin ==
    [ op |-> "execute_query", responses |-> << >>, outcome |-> "running", returned |-> FALSE ]

\* One attempt and the decision of the retry decorator after it: another
\* attempt, or the end of the call with the attempt's outcome (reraise=True
\* gives the caller the last exception itself).
QueryAttempt(f, response) ==
    LET outcome == AttemptOutcome(response)
        attempt_number == Len(f.responses) + 1
    IN  IF retry_if_exception_type(outcome) /\ attempt_number < stop_after_attempt
        THEN [ f EXCEPT !.responses = Append(@, response) ]
        ELSE [ f EXCEPT !.responses = Append(@, response), !.outcome = outcome,
                        !.returned = TRUE ]

InitClient ==
    /\ ontology = OntologyPlain
    /\ schema_info = None
    /\ entity_type = << >>
    /\ strict = FALSE
    /\ data = << >>
    /\ data_list = << >>
    /\ pc = "idle"
    /\ result = << >>
    /\ added = << >>
    /\ batch_result = << >>
    /\ NoCallsYet
    /\ NoServices

ExecuteQueryCall ==
    /\ NoneRunning
    /\ frame' = QueryBegin
    /\ UNCHANGED << validatorVars, pc, ret, shapes_graph, redis >>

ExecuteQueryAttempt ==
    /\ frame.op = "execute_query"
    /\ ~frame.returned
    /\ \E response \in Responses : frame' = QueryAttempt(frame, response)
    /\ UNCHANGED << validatorVars, pc, ret, shapes_graph, redis >>

NextClient ==
    \/ ExecuteQueryCall
    \/ ExecuteQueryAttempt

SpecClient == InitClient /\ [][NextClient]_vars

\* ------------------------------------------- GraphService.get_author_network
EdgeType == { "influenced_by", "student_of", "authored", "member_of" }

_map_edge_type(rel_type) ==
    CASE rel_type = << "influenced_by" >> -> "influenced_by"
      [] rel_type = << "influenced" >> -> "influenced_by"
      [] rel_type = << "student_of" >> -> "student_of"
      [] rel_type = << "teacher_of" >> -> "student_of"
      [] rel_type = << "coauthor" >> -> "authored"
      [] rel_type = << "same_movement" >> -> "member_of"
      [] OTHER -> "influenced_by"

GraphEdge(source, target, type) == [ source |-> source, target |-> target, type |-> type ]

\* A row of the query's results, with the fields the expansion reads.
Row(source, target, relationType) ==
    [ source |-> source, target |-> target, relationType |-> relationType ]

\* depth = max(1, min(depth, 3))
ClampDepth(depth) == IF depth < 1 THEN 1 ELSE IF depth > 3 THEN 3 ELSE depth

\* This variant appends the edge of every row.
AppendEdge_always(all_edges, edge) == Append(all_edges, edge)

\* The edge is appended unless an edge of the list has its source, target
\* and type.
AppendEdge(all_edges, edge) ==
    IF \E i \in 1..Len(all_edges) :
          << all_edges[i].source, all_edges[i].target, all_edges[i].type >>
              = << edge.source, edge.target, edge.type >>
    THEN all_edges
    ELSE Append(all_edges, edge)

AppendNew(ids, id) == IF \E i \in 1..Len(ids) : ids[i] = id THEN ids ELSE Append(ids, id)

\* The local variables after the cache was asked and gave nothing.
NetworkBegin(author_qids, depth) ==
    [ op |-> "get_author_network",
      depth |-> ClampDepth(depth),
      hop |-> 0,
      at |-> "hop",
      results |-> << >>,
      all_nodes |-> << >>,
      all_edges |-> << >>,
      current_qids |-> { author_qids[i] : i \in 1..Len(author_qids) },
      next_qids |-> { },
      seen_qids |-> { author_qids[i] : i \in 1..Len(author_qids) },
      raised |-> FALSE,
      returned |-> FALSE ]

\* The body of the loop over the rows, for the first row that is left.
NetworkRow(f) ==
    LET row == Head(f.results)
        edge == GraphEdge(row.source, row.target, _map_edge_type(row.relationType))
    IN  IF row.source = << >> \/ row.target = << >>
        THEN [ f EXCEPT !.results = Tail(@) ]
        ELSE [ f EXCEPT !.results = Tail(@),
                        !.all_nodes = AppendNew(AppendNew(@, row.source), row.target),
                        !.all_edges = AppendEdge(@, edge),
                        !.next_qids = IF row.target \in f.seen_qids THEN @
                                      ELSE @ \cup { row.target },
                        !.seen_qids = @ \cup { row.target } ]

\* ------------------------------------------------------ the network's clients
Rows ==
    { Row(S_Q1, S_Q2, << "influenced_by" >>),
      Row(S_Q1, S_Q2, << "influenced" >>),
      Row(S_Q1, S_Q2, << "student_of" >>),
      Row(S_Q2, S_Q1, << "bogus" >>),
      Row(S_Q2, S_Q30, << "teacher_of" >>),
      Row(S_Q1, << >>, << "coauthor" >>) }

\* The results of one query: every list of at most two rows, and two
\* longer lists in which a triple comes back.
ResultLists ==
    { << >> } \cup { << r >> : r \in Rows } \cup { << r, s >> : r \in Rows, s \in Rows }
    \cup { << Row(S_Q1, S_Q2, << "influenced_by" >>), Row(S_Q2, S_Q30, << "teacher_of" >>),
              Row(S_Q1, S_Q2, << "influenced" >>) >>,
           << Row(S_Q2, S_Q1, << "bogus" >>), Row(S_Q2, S_Q30, << "student_of" >>),
              Row(S_Q2, S_Q1, << "influenced_by" >>), Row(S_Q2, S_Q30, << "teacher_of" >>) >> }

AuthorLists == { << >>, << S_Q1 >>, << S_Q2, S_Q1 >> }

Depths == { 0, 2, 5 }

\* The services are constructed; the cache service has no client (connect
\* was not called, or Redis did not answer): get gives None, set stores
\* nothing.
InitNetwork ==
    /\ ontology = OntologyPlain
    /\ schema_info = None
    /\ entity_type = << >>
    /\ strict = FALSE
    /\ data = << >>
    /\ data_list = << >>
    /\ pc = "idle"
    /\ result = << >>
    /\ added = << >>
    /\ batch_result = << >>
    /\ NoCallsYet
    /\ NoServices

\* The call, up to the loop over the hops.
NetworkCall ==
    /\ NoneRunning
    /\ \E author_qids \in AuthorLists, depth \in Depths :
          frame' = NetworkBegin(author_qids, depth)
    /\ UNCHANGED << validatorVars, pc, ret, shapes_graph, redis >>

\* A hop begins: the query for the current identifiers is executed; it
\* gives rows, or it raises and the call ends.
NetworkQuery ==
    /\ frame.op = "get_author_network"
    /\ ~frame.returned
    /\ frame.at = "hop"
    /\ frame.hop < frame.depth
    /\ frame.current_qids # { }
    /\ \/ \E results \in ResultLists :
             frame' = [ frame EXCEPT !.results = results, !.next_qids = { }, !.at = "rows" ]
       \/ frame' = [ frame EXCEPT !.raised = TRUE, !.returned = TRUE ]
    /\ UNCHANGED << validatorVars, pc, ret, shapes_graph, redis >>

\* One row of the results is processed.
NetworkRowStep ==
    /\ frame.op = "get_author_network"
    /\ ~frame.returned
    /\ frame.at = "rows"
    /\ frame.results # << >>
    /\ frame' = NetworkRow(frame)
    /\ UNCHANGED << validatorVars, pc, ret, shapes_graph, redis >>

\* The rows are done: the hop ends.
NetworkHopEnd ==
    /\ frame.op = "get_author_network"
    /\ ~frame.returned
    /\ frame.at = "rows"
    /\ frame.results = << >>
    /\ frame' = [ frame EXCEPT !.current_qids = frame.next_qids, !.hop = @ + 1,
                               !.at = "hop" ]
    /\ UNCHANGED << validatorVars, pc, ret, shapes_graph, redis >>

\* The loop over the hops is left and the graph is returned. The metrics
\* of the nodes, which the model leaves out, change no edge.
NetworkReturn ==
    /\ frame.op = "get_author_network"
    /\ ~frame.returned
    /\ frame.at = "hop"
    /\ frame.hop = frame.depth \/ frame.current_qids = { }
    /\ frame' = [ frame EXCEPT !.returned = TRUE ]
    /\ UNCHANGED << validatorVars, pc, ret, shapes_graph, redis >>

NextNetwork ==
    \/ NetworkCall
    \/ NetworkQuery
    \/ NetworkRowStep
    \/ NetworkHopEnd
    \/ NetworkReturn

SpecNetwork == InitNetwork /\ [][NextNetwork]_vars

\* ------------------------------------------------------------ properties
CountSeverity(issues, sev) ==
    Cardinality({ i \in 1..Len(issues) : issues[i].severity = sev })

CountType(issues, t) ==
    Cardinality({ i \in 1..Len(issues) : issues[i].type = t })

IssuesOn(issues, field) == SelectSeq(issues, LAMBDA i : i.field = field)

RECURSIVE SumErrors(_)
SumErrors(results) ==
    IF Len(results) = 0 THEN 0
    ELSE Head(results).error_count + SumErrors(Tail(results))

RECURSIVE SumWarnings(_)
SumWarnings(results) ==
    IF Len(results) = 0 THEN 0
    ELSE Head(results).warning_count + SumWarnings(Tail(results))

\* C1: on a result created as validate_entity creates it, valid equals
\* (error_count = 0) after every add_issue call, whatever the issues.
C1_ValidIffNoErrors ==
    pc = "open" => (result.valid <=> (result.error_count = 0))

C1_Witness ==
    /\ pc = "open"
    /\ Len(added) >= 3
    /\ added[1].severity = "warning"
    /\ added[2].severity = "error"
    /\ added[3].severity = "info"
    /\ ~result.valid

\* C2: the three counters equal the numbers of issues of severity error,
\* warning and info, and issues holds exactly the issues added, in call
\* order.
C2_CountsMatchIssues ==
    pc = "open" =>
        /\ result.issues = added
        /\ result.error_count = CountSeverity(result.issues, "error")
        /\ result.warning_count = CountSeverity(result.issues, "warning")
        /\ result.info_count = CountSeverity(result.issues, "info")

C2_Witness ==
    /\ pc = "open"
    /\ Len(result.issues) = MaxIssues
    /\ result.error_count >= 1
    /\ result.warning_count >= 2
    /\ result.info_count >= 1

RECURSIVE SumType(_, _)
SumType(results, t) ==
    IF Len(results) = 0 THEN 0
    ELSE CountType(Head(results).issues, t) + SumType(Tail(results), t)

\* The schema the mapper works with: its memoized SchemaInfo, or the one it
\* extracts from the loaded ontology.
CurrentSchema == extract_mappings(schema_info, ontology)

KnownType == ~IsNone(get_class_mapping(CurrentSchema, entity_type))

Expected == get_expected_properties_for_class(CurrentSchema, ontology, entity_type)

\* C3: the result validate_batch returns has valid_entities +
\* invalid_entities = len(results) = total_entities = number of input
\* entities, and valid_entities counts exactly the results that are valid.
C3_BatchCountsConsistent ==
    /\ pc \in { "loop", "returned" } =>
          /\ batch_result.valid_entities + batch_result.invalid_entities = Len(batch_result.results)
          /\ batch_result.valid_entities =
                Cardinality({ i \in 1..Len(batch_result.results) : batch_result.results[i].valid })
    /\ pc = "returned" =>
          /\ Len(batch_result.results) = batch_result.total_entities
          /\ batch_result.total_entities = Len(data_list)

C3_Witness ==
    /\ pc = "returned"
    /\ Len(data_list) >= 2
    /\ batch_result.valid_entities >= 1
    /\ batch_result.invalid_entities >= 1

\* C4: in the result validate_batch returns, total_errors and
\* total_warnings are the sums of error_count and warning_count over the
\* results, and summary maps each issue type to the number of issues of
\* that type in all results, holding no key for a type without issue.
C4_BatchTotalsAreSums ==
    pc = "returned" =>
        /\ batch_result.total_errors = SumErrors(batch_result.results)
        /\ batch_result.total_warnings = SumWarnings(batch_result.results)
        /\ DictKeys(batch_result.summary) \subseteq ValidationType
        /\ DistinctKeys(batch_result.summary)
        /\ \A t \in ValidationType :
              IF SumType(batch_result.results, t) = 0
              THEN ~DictHas(batch_result.summary, t)
              ELSE /\ DictHas(batch_result.summary, t)
                   /\ DictGet(batch_result.summary, t) = SumType(batch_result.results, t)

C4_Witness ==
    /\ pc = "returned"
    /\ Len(batch_result.results) >= 2
    /\ batch_result.total_errors >= 1
    /\ batch_result.total_warnings >= 2
    /\ \E t \in ValidationType :
          DictHas(batch_result.summary, t) /\ DictGet(batch_result.summary, t) >= 2
    /\ Len(batch_result.summary) >= 2

\* C5: validate_batch never aborts early; a call on n entities ends with
\* exactly n results, the i-th of them for the i-th entity, whatever the
\* entities hold.
C5_BatchNeverAborts ==
    /\ pc # "raised"
    /\ pc = "returned" =>
          /\ Len(batch_result.results) = Len(data_list)
          /\ \A i \in 1..Len(data_list) :
                batch_result.results[i].entity_id = _extract_entity_id(data_list[i])

\* C6: validate_entity never raises; every call, whatever the entity type
\* and the data, returns a ValidationResult.
C6_EntityNeverRaises ==
    /\ pc # "raised"
    /\ pc = "returned" => result.entity_type = entity_type

MissingIssuesOn(p) ==
    SelectSeq(result.issues, LAMBDA i : i.type = "missing_required" /\ i.field = p)

C9_AbsentPropertyIsInfo ==
    (pc = "returned" /\ KnownType /\ ~strict) =>
        /\ \A p \in DictKeys(Expected) :
              ~DictHas(data, p) =>
                  MissingIssuesOn(p) = << ValidationIssue("missing_required", "info", p) >>
        /\ \A i \in 1..Len(result.issues) :
              result.issues[i].type = "missing_required" =>
                  result.issues[i].severity = "info"
        /\ (\A i \in 1..Len(result.issues) :
               ~(result.issues[i].type = "type_mismatch"
                   /\ result.issues[i].severity = "error"))
              => (result.error_count = 0 /\ result.valid)

C9_Witness ==
    /\ pc = "returned"
    /\ ontology = OntologyPlain
    /\ entity_type = << "Author" >>
    /\ ~strict
    /\ data = << << << "qid" >>, VStr(S_Q42) >>, << << "birthDate" >>, VStr(S_FullDate) >> >>
    /\ result.issues = << ValidationIssue("missing_required", "info", << "birthPlace" >>) >>
    /\ result.error_count = 0
    /\ result.valid

\* C10: for a known type, a meta field (qid, id, uri, type) yields no
\* issue; a field named as an expected property yields the issues of its
\* value validation; any other field yields exactly one unknown_property
\* issue, WARNING or ERROR when strict, when its reverse translation fails
\* and no issue when it succeeds.
C10_FieldHandling ==
    (pc = "returned" /\ KnownType) =>
        \A n \in 1..Len(data) :
            LET f == data[n][1]
                value == data[n][2]
                on == IssuesOn(result.issues, f)
            IN  IF f \in { << "qid" >>, << "id" >>, << "uri" >>, << "type" >> }
                THEN on = << >>
                ELSE IF DictHas(Expected, f)
                THEN on = _validate_property_value(f, value, DictGet(Expected, f), strict)
                ELSE IF IsNone(translate_from_wikidata(CurrentSchema, f))
                THEN on = << ValidationIssue("unknown_property",
                                   IF strict THEN "error" ELSE "warning", f) >>
                ELSE on = << >>

C10_Witness ==
    /\ pc = "returned"
    /\ KnownType
    /\ strict
    /\ DictHas(data, << "type" >>)
    /\ DictHas(data, << "foo" >>)
    /\ IssuesOn(result.issues, << "foo" >>) =
          << ValidationIssue("unknown_property", "error", << "foo" >>) >>
    /\ IssuesOn(result.issues, << "type" >>) = << >>

\* The expected datatype properties of range xsd:date whose value in data
\* is a bare year: four digits naming a year strptime accepts.
IsBareYear(value) ==
    /\ value[1] = "str"
    /\ Len(value[2]) = 4
    /\ IsDigits(value[2])
    /\ NumVal(value[2]) >= 1

BareYearFields ==
    { f \in DictKeys(Expected) :
        /\ DictGet(Expected, f).property_type = << "DatatypeProperty" >>
        /\ DictGet(Expected, f).range = Some(XSD \o << "date" >>)
        /\ DictHas(data, f)
        /\ IsBareYear(DictGet(data, f)) }

LaxResult == validate_entity(CurrentSchema, ontology, entity_type, data, FALSE).result

\* C12: with strict = True every issue that the call reports at WARNING
\* with strict = False (unknown_property, format, type_mismatch on a
\* datatype value) is reported at ERROR, so that any such issue makes the
\* strict result invalid.
C12_StrictWarningsAreErrors ==
    (pc = "returned" /\ KnownType /\ strict) =>
        /\ Len(result.issues) = Len(LaxResult.issues)
        /\ \A i \in 1..Len(LaxResult.issues) :
              LaxResult.issues[i].severity = "warning" =>
                  result.issues[i] = [ LaxResult.issues[i] EXCEPT !.severity = "error" ]
        /\ LaxResult.warning_count > 0 => ~result.valid

\* The list a look-up scans, and the positions of that list whose mapping
\* carries the identifier as its local name, ontology URI, Wikidata id or
\* Wikidata URI.
ScannedList ==
    IF ret.op = "get_class_mapping" THEN schema_info[1].class_mappings
    ELSE schema_info[1].property_mappings

Carriers(mappings, identifier) ==
    { i \in 1..Len(mappings) :
        \/ mappings[i].ontology_local = identifier
        \/ mappings[i].ontology_uri = identifier
        \/ mappings[i].wikidata_id = identifier
        \/ mappings[i].wikidata_uri = identifier }

IsLookup == ret.op \in { "get_class_mapping", "get_property_mapping" }

\* C13 as stated: a look-up by any of the four identifier forms of a
\* mapping m of the extracted list returns that same mapping m, and an
\* identifier no mapping carries returns not-found.
C13_LookupReturnsThatMapping ==
    IsLookup =>
        /\ \A i \in Carriers(ScannedList, ret.arg) : ret.value = Some(ScannedList[i])
        /\ Carriers(ScannedList, ret.arg) = { } => ret.value = None

\* C13: a look-up returns the first mapping of the extracted list, in list
\* order, that carries the identifier in one of its four forms, so that it
\* returns m itself for every form of m that no earlier mapping carries;
\* an identifier no mapping carries returns not-found.
C13_LookupReturnsFirstCarrier ==
    IsLookup =>
        LET at == Carriers(ScannedList, ret.arg)
        IN  /\ at # { } =>
                  \E i \in at : /\ \A j \in at : i <= j
                                /\ ret.value = Some(ScannedList[i])
            /\ at = { } => ret.value = None

C13_Witness ==
    /\ ret.op = "get_class_mapping"
    /\ ret.arg = WD \o Q_Author
    /\ Carriers(ScannedList, ret.arg) = { 1, 2 }
    /\ ret.value = Some(ScannedList[1])
    /\ ScannedList[2] # ScannedList[1]

\* Every mapping of the list is found in the two indexes under its own
\* keys with its own values.
IndexesHoldEveryMapping(mappings, w2o, o2w) ==
    \A i \in 1..Len(mappings) :
        /\ DictHas(w2o, mappings[i].wikidata_id)
        /\ DictGet(w2o, mappings[i].wikidata_id) = mappings[i].ontology_uri
        /\ DictHas(o2w, mappings[i].ontology_uri)
        /\ DictGet(o2w, mappings[i].ontology_uri) = mappings[i].wikidata_id
        /\ DictHas(o2w, mappings[i].ontology_local)
        /\ DictGet(o2w, mappings[i].ontology_local) = mappings[i].wikidata_id

\* The keys of the two indexes are exactly the Wikidata ids, and the
\* ontology URIs and local names, of the mappings of the list.
IndexKeysFromMappings(mappings, w2o, o2w) ==
    /\ DictKeys(w2o) = { mappings[i].wikidata_id : i \in 1..Len(mappings) }
    /\ DictKeys(o2w) = { mappings[i].ontology_uri : i \in 1..Len(mappings) }
                          \cup { mappings[i].ontology_local : i \in 1..Len(mappings) }
    /\ DistinctKeys(w2o)
    /\ DistinctKeys(o2w)

\* Every key of the two indexes maps to the value of the last mapping of
\* the list that has the key.
IndexesHoldLastMapping(mappings, w2o, o2w) ==
    /\ \A k \in DictKeys(w2o) :
          \E i \in 1..Len(mappings) :
              /\ mappings[i].wikidata_id = k
              /\ \A j \in (i + 1)..Len(mappings) : mappings[j].wikidata_id # k
              /\ DictGet(w2o, k) = mappings[i].ontology_uri
    /\ \A k \in DictKeys(o2w) :
          \E i \in 1..Len(mappings) :
              /\ k \in { mappings[i].ontology_uri, mappings[i].ontology_local }
              /\ \A j \in (i + 1)..Len(mappings) :
                    k \notin { mappings[j].ontology_uri, mappings[j].ontology_local }
              /\ DictGet(o2w, k) = mappings[i].wikidata_id

\* C14 as stated: after extract_mappings every class mapping and every
\* property mapping is found in its two indexes under its Wikidata id, its
\* ontology URI and its local name with its own values, and no index holds
\* a key that comes from no mapping.
C14_IndexesHoldEveryMapping ==
    ~IsNone(schema_info) =>
        LET s == schema_info[1]
        IN  /\ IndexesHoldEveryMapping(s.class_mappings, s.wikidata_to_ontology_class,
                                       s.ontology_to_wikidata_class)
            /\ IndexesHoldEveryMapping(s.property_mappings, s.wikidata_to_ontology_property,
                                       s.ontology_to_wikidata_property)
            /\ IndexKeysFromMappings(s.class_mappings, s.wikidata_to_ontology_class,
                                     s.ontology_to_wikidata_class)
            /\ IndexKeysFromMappings(s.property_mappings, s.wikidata_to_ontology_property,
                                     s.ontology_to_wikidata_property)

\* C14: after extract_mappings the keys of the four indexes are exactly the
\* Wikidata ids, ontology URIs and local names of the mappings of the two
\* lists, and every key maps to the value of the last mapping of the list
\* that has the key; a mapping is found under its own keys with its own
\* values when no later mapping has the same key.
C14_IndexesHoldLastMapping ==
    ~IsNone(schema_info) =>
        LET s == schema_info[1]
        IN  /\ IndexKeysFromMappings(s.class_mappings, s.wikidata_to_ontology_class,
                                     s.ontology_to_wikidata_class)
            /\ IndexKeysFromMappings(s.property_mappings, s.wikidata_to_ontology_property,
                                     s.ontology_to_wikidata_property)
            /\ IndexesHoldLastMapping(s.class_mappings, s.wikidata_to_ontology_class,
                                      s.ontology_to_wikidata_class)
            /\ IndexesHoldLastMapping(s.property_mappings, s.wikidata_to_ontology_property,
                                      s.ontology_to_wikidata_property)

C14_Witness ==
    /\ extracted.called
    /\ ~IsNone(schema_info)
    /\ LET s == schema_info[1]
       IN  /\ Len(s.class_mappings) >= 3
           /\ s.class_mappings[1].wikidata_id = s.class_mappings[2].wikidata_id
           /\ s.class_mappings[1].ontology_uri # s.class_mappings[2].ontology_uri
           /\ DictGet(s.wikidata_to_ontology_class, s.class_mappings[1].wikidata_id)
                 = s.class_mappings[2].ontology_uri
           /\ s.class_mappings[3].ontology_uri = s.class_mappings[1].ontology_uri
           /\ DictGet(s.ontology_to_wikidata_class, s.class_mappings[1].ontology_local)
                 = s.class_mappings[3].wikidata_id

\* C15: of two successive calls of extract_mappings, a second call without
\* force_refresh returns the same SchemaInfo object as the first and issues
\* no ontology query; a second call with force_refresh, the ontology being
\* unchanged, returns a SchemaInfo whose mapping lists, counts and indexes
\* equal those the first returned.
C15_ExtractIdempotent ==
    (extracted.called /\ prev_extracted.called) =>
        /\ extracted.value = prev_extracted.value
        /\ ~extracted.force =>
              /\ extracted.id = prev_extracted.id
              /\ extracted.queries = prev_extracted.queries
        /\ extracted.id = schema_id
        /\ extracted.value = schema_info

C15_Witness ==
    /\ extracted.called
    /\ prev_extracted.called
    /\ ~extracted.force
    /\ prev_extracted.force
    /\ extracted.id = MaxExtractions
    /\ extracted.queries = 2 * MaxExtractions
    /\ ret.op = "get_class_mapping"

\* The class mappings followed by the property mappings.
AllMappings == schema_info[1].class_mappings \o schema_info[1].property_mappings

IsTranslation == ret.op \in { "translate_to_wikidata", "translate_from_wikidata" }

\* What a translation gives for a mapping: its Wikidata id in the one
\* direction, its local name in the other.
Translated(m) ==
    IF ret.op = "translate_to_wikidata" THEN m.wikidata_id ELSE m.ontology_local

\* C16 as stated: for every mapped class or property with local name L and
\* non-empty Wikidata id W, translate_to_wikidata(L) = W and
\* translate_from_wikidata(W) = L; an identifier that neither a class
\* mapping nor a property mapping carries gives null.
C16_TranslationRoundTrips ==
    IsTranslation =>
        /\ \A i \in 1..Len(AllMappings) :
              (/\ AllMappings[i].wikidata_id # << >>
               /\ ret.arg = (IF ret.op = "translate_to_wikidata"
                             THEN AllMappings[i].ontology_local
                             ELSE AllMappings[i].wikidata_id))
                  => ret.value = Some(Translated(AllMappings[i]))
        /\ Carriers(AllMappings, ret.arg) = { } => ret.value = None

\* C16: a translation looks the identifier up in the class mappings first
\* and then in the property mappings, and returns the Wikidata id (the
\* local name, for translate_from_wikidata) of the first mapping that
\* carries it, null when none does.  For a mapping with local name L and
\* non-empty Wikidata id W that is the first carrier of L and of W,
\* translate_to_wikidata(L) = W and translate_from_wikidata(W) = L.
C16_TranslationFollowsFirstCarrier ==
    IsTranslation =>
        LET at == Carriers(AllMappings, ret.arg)
        IN  /\ at = { } => ret.value = None
            /\ at # { } =>
                  LET i == CHOOSE i \in at : \A j \in at : i <= j
                      m == AllMappings[i]
                  IN  /\ ret.value = Some(Translated(m))
                      /\ (/\ ret.op = "translate_to_wikidata"
                          /\ ret.arg = m.ontology_local
                          /\ m.wikidata_id # << >>
                          /\ \A j \in Carriers(AllMappings, m.wikidata_id) : i <= j)
                            => translate_from_wikidata(schema_info[1], ret.value[1])
                                  = Some(ret.arg)

C16_Witness ==
    /\ ret.op = "translate_to_wikidata"
    /\ ret.arg = << "Genre" >>
    /\ ret.value = Some(<< "Q", "4", "8", "3", "3", "9", "4" >>)
    /\ \E i \in 1..Len(schema_info[1].property_mappings) :
          /\ schema_info[1].property_mappings[i].ontology_local = << "Genre" >>
          /\ schema_info[1].property_mappings[i].wikidata_id = << "P", "1", "3", "6" >>
    /\ translate_from_wikidata(schema_info[1], ret.value[1]) = Some(<< "Genre" >>)

\* The classes with an rdfs:subClassOf path of one or more triples to one
\* of the classes of the set, collected over rounds.
RECURSIVE SubclassesWithin(_, _, _)
SubclassesWithin(edges, classes, rounds) ==
    IF rounds = 0 THEN classes
    ELSE SubclassesWithin(edges,
             classes \cup { e[1] : e \in { e \in edges : e[2] \in classes } },
             rounds - 1)

ProperSubclasses(onto, class) ==
    SubclassesWithin(onto.subclass,
                     { e[1] : e \in { e \in onto.subclass : e[2] = class } },
                     Cardinality(onto.subclass))

\* C17: get_properties_for_class returns, in list order, exactly the
\* property mappings whose domain is the ontology URI of the class the
\* identifier resolves to or a direct or transitive rdfs:subClassOf
\* subclass of it, none without domain, and the empty list for an
\* identifier that resolves to no class mapping.
C17_PropertiesOfClassAndSubclasses ==
    ret.op = "get_properties_for_class" =>
        LET at == Carriers(schema_info[1].class_mappings, ret.arg)
        IN  /\ at = { } => ret.value = << >>
            /\ at # { } =>
                  LET class == schema_info[1].class_mappings[
                                   CHOOSE i \in at : \A j \in at : i <= j].ontology_uri
                      domains == { class } \cup ProperSubclasses(ontology, class)
                  IN  /\ ret.value =
                            SelectSeq(schema_info[1].property_mappings,
                                LAMBDA pm : ~IsNone(pm.domain) /\ pm.domain[1] \in domains)
                      /\ \A i \in 1..Len(ret.value) : ~IsNone(ret.value[i].domain)

C17_Witness ==
    /\ ret.op = "get_properties_for_class"
    /\ ontology = OntologySubclass
    /\ ret.arg = Q_Author
    /\ Len(ret.value) = 4
    /\ Len(schema_info[1].property_mappings) = 4
    /\ ret.value[3].domain = Some(LIT \o << "Novelist" >>)
    /\ ret.value[4].domain = Some(LIT \o << "Writer" >>)

\* pattern occurs in text as a run of consecutive symbols.
Occurs(text, pattern) ==
    \E i \in 1..(Len(text) - Len(pattern) + 1) :
        SubSeq(text, i, i + Len(pattern) - 1) = pattern

TokenCount(text, token) == Cardinality({ i \in 1..Len(text) : text[i] = token })

\* C18: generate_entity_query raises and returns no text for an entity
\* type that no class mapping carries; for a known type the text holds
\* exactly one pattern binding ?item: BIND(wd:<qid> AS ?item) and no
\* instance-of pattern when a qid is given, otherwise
\* ?item wdt:P31/wdt:P279* wd:<QID of the class mapping> and no BIND.
C18_EntityQueryBindsItemOnce ==
    generated.op = "generate_entity_query" =>
        LET mappings == schema_info[1].class_mappings
            known == Carriers(mappings, generated.args.entity_type)
            qid == generated.args.qid
        IN  IF known = { }
            THEN generated.raised /\ generated.text = None
            ELSE /\ ~generated.raised
                 /\ generated.text # None
                 /\ LET text == generated.text[1]
                        mapped == mappings[CHOOSE i \in known : \A j \in known : i <= j]
                        binds == TokenCount(text, "BIND(wd:")
                        instances == TokenCount(text, " wdt:P31/wdt:P279* wd:")
                    IN  IF qid # None /\ qid[1] # << >>
                        THEN /\ Occurs(text, << "BIND(wd:" >> \o qid[1]
                                                 \o << " AS ", "?item", ")" >>)
                             /\ binds = 1
                             /\ instances = 0
                        ELSE /\ Occurs(text, << "?item", " wdt:P31/wdt:P279* wd:" >>
                                                 \o mapped.wikidata_id \o << " ." >>)
                             /\ instances = 1
                             /\ binds = 0

C18_Witness ==
    /\ prev_generated.op = "generate_entity_query"
    /\ prev_generated.args.entity_type = << "Bogus" >>
    /\ prev_generated.raised
    /\ generated.op = "generate_entity_query"
    /\ generated.args.entity_type = << "Author" >>
    /\ generated.args.qid = Some(S_Q42)
    /\ ~generated.raised
    /\ TokenCount(generated.text[1], "OPTIONAL { ") >= 2

\* comparison occurs in text on a line that starts with FILTER(.
OccursInFilter(text, comparison) ==
    \E i \in 1..Len(text) :
        /\ text[i] = "  FILTER("
        /\ \E j \in (i + 1)..(Len(text) - Len(comparison) + 1) :
              /\ SubSeq(text, j, j + Len(comparison) - 1) = comparison
              /\ \A k \in i..j : text[k] # "\n"

QidSupplied(o) == o # None /\ o[1] # << >>

\* C19: in the text of generate_author_query and generate_work_query
\* every supplied filter argument appears: a country, movement, author or
\* genre QID as its triple pattern (the subject's own QID as its BIND),
\* year_start and year_end, for every integer, as the YEAR comparison
\* inside FILTER.
C19_SuppliedFiltersAppear ==
    /\ generated.op = "generate_author_query" =>
          LET a == generated.args
              text == generated.text[1]
          IN  /\ QidSupplied(a.author_qid) =>
                    Occurs(text, << "BIND(wd:" >> \o a.author_qid[1]
                                     \o << " AS ", "?author", ")" >>)
              /\ QidSupplied(a.country_qid) =>
                    Occurs(text, << "?author wdt:P27 wd:" >> \o a.country_qid[1] \o << " ." >>)
              /\ QidSupplied(a.movement_qid) =>
                    Occurs(text, << "?author wdt:P135 wd:" >> \o a.movement_qid[1] \o << " ." >>)
              /\ a.year_start # None =>
                    OccursInFilter(text, << "YEAR(", "?birthDate", ") >= " >>
                                             \o IntToStr(a.year_start[1]))
              /\ a.year_end # None =>
                    OccursInFilter(text, << "YEAR(", "?birthDate", ") <= " >>
                                             \o IntToStr(a.year_end[1]))
    /\ generated.op = "generate_work_query" =>
          LET a == generated.args
              text == generated.text[1]
          IN  /\ QidSupplied(a.work_qid) =>
                    Occurs(text, << "BIND(wd:" >> \o a.work_qid[1]
                                     \o << " AS ", "?work", ")" >>)
              /\ QidSupplied(a.author_qid) =>
                    Occurs(text, << "?work wdt:P50 wd:" >> \o a.author_qid[1] \o << " ." >>)
              /\ QidSupplied(a.genre_qid) =>
                    Occurs(text, << "?work wdt:P136 wd:" >> \o a.genre_qid[1] \o << " ." >>)
              /\ a.year_start # None =>
                    OccursInFilter(text, << "YEAR(", "?publicationDate", ") >= " >>
                                             \o IntToStr(a.year_start[1]))
              /\ a.year_end # None =>
                    OccursInFilter(text, << "YEAR(", "?publicationDate", ") <= " >>
                                             \o IntToStr(a.year_end[1]))

C25_NullReportedAsMissing ==
    (pc = "returned" /\ KnownType) =>
        \A p \in DictKeys(Expected) :
            (DictHas(data, p) /\ DictGet(data, p) = VNone) =>
                Len(MissingIssuesOn(p)) = 1

\* The elements of a value: the value itself, or the elements of the
\* items of a list, in order.
RECURSIVE ElementsOf(_)
RECURSIVE ElementsOfItems(_)
ElementsOfItems(items) ==
    IF Len(items) = 0 THEN << >>
    ELSE ElementsOf(Head(items)) \o ElementsOfItems(Tail(items))

ElementsOf(value) ==
    IF value[1] = "list" THEN ElementsOfItems(value[2]) ELSE << value >>

\* The id an element resolves to: the string itself, or the first of the
\* mapping's qid, value and id that is usable; none for a mapping that
\* has none of the three keys.
HasResolvedId(e) ==
    \/ e[1] = "str"
    \/ e[1] = "dict" /\ \E k \in { << "qid" >>, << "value" >>, << "id" >> } : DictHas(e[2], k)

ResolvedId(e) == IF e[1] = "str" THEN e ELSE DictEntityId(e)

LooksLikeEntity(id) == QID_PATTERN(PyStr(id)) \/ WIKIDATA_URI_PATTERN(PyStr(id))

IssueCount(issues, type, severity) ==
    Len(SelectSeq(issues, LAMBDA i : i.type = type /\ i.severity = severity))

\* C23: _validate_object_property yields one type_mismatch ERROR for
\* every element that is neither a string, a mapping nor a list, one
\* format WARNING for every string or mapping element whose resolved id
\* matches neither entity pattern, and nothing else.
C23_ObjectIssuesPerElement ==
    ret.op = "_validate_object_property" =>
        LET elements == ElementsOf(ret.arg[1])
            others == SelectSeq(elements, LAMBDA e : e[1] \notin { "str", "dict" })
            unlike == SelectSeq(elements,
                          LAMBDA e : /\ e[1] \in { "str", "dict" }
                                     /\ HasResolvedId(e)
                                     /\ ~LooksLikeEntity(ResolvedId(e)))
        IN  /\ IssueCount(ret.value, "type_mismatch", "error") = Len(others)
            /\ IssueCount(ret.value, "format", "warning") = Len(unlike)
            /\ Len(ret.value) = Len(others) + Len(unlike)

\* A text of the form YYYY-MM-DD, YYYY-MM, YYYY or -YYYY, with the year,
\* month and day it names (month and day 1 where the form has none).
IsYearText(s) == Len(s) = 4 /\ IsDigits(s)

IsPairText(s) == Len(s) = 2 /\ IsDigits(s)

HasDateForm(s) ==
    \/ IsYearText(s)
    \/ Len(s) = 5 /\ s[1] = "-" /\ IsYearText(Tail(s))
    \/ Len(s) = 7 /\ IsYearText(SubSeq(s, 1, 4)) /\ s[5] = "-" /\ IsPairText(SubSeq(s, 6, 7))
    \/ /\ Len(s) = 10
       /\ IsYearText(SubSeq(s, 1, 4)) /\ s[5] = "-" /\ IsPairText(SubSeq(s, 6, 7))
       /\ s[8] = "-" /\ IsPairText(SubSeq(s, 9, 10))

NamesCalendarDay(s) ==
    LET y == NumVal(SubSeq(s, 1, 4))
        m == IF Len(s) >= 7 THEN NumVal(SubSeq(s, 6, 7)) ELSE 1
        d == IF Len(s) = 10 THEN NumVal(SubSeq(s, 9, 10)) ELSE 1
    IN  /\ y >= 1
        /\ m >= 1 /\ m <= 12
        /\ d >= 1
        /\ d <= (CASE m = 2 -> IF (y % 4 = 0 /\ y % 100 # 0) \/ y % 400 = 0 THEN 29 ELSE 28
                   [] m \in { 4, 6, 9, 11 } -> 30
                   [] OTHER -> 31)

\* The call checked a string or integer value of a property whose range
\* name contains "date"; the text of the value.
IsDateCheck ==
    /\ ret.op = "_validate_datatype_property"
    /\ ret.arg[1][1] \in { "str", "int" }
    /\ ret.arg[2] \in { XSD \o << "date" >>, XSD \o << "dateTime" >> }

DateCheckText == IF ret.arg[1][1] = "str" THEN ret.arg[1][2] ELSE IntToStr(ret.arg[1][2])

FormatIssues == SelectSeq(ret.value, LAMBDA i : i.type = "format")

C30_IndexAgreesWithScan ==
    /\ (/\ ret.op = "get_class_mapping"
        /\ DictHas(schema_info[1].wikidata_to_ontology_class, ret.arg))
          => /\ ret.value # None
             /\ ret.value[1].ontology_uri =
                    DictGet(schema_info[1].wikidata_to_ontology_class, ret.arg)
    /\ (/\ ret.op = "get_property_mapping"
        /\ DictHas(schema_info[1].wikidata_to_ontology_property, ret.arg))
          => /\ ret.value # None
             /\ ret.value[1].ontology_uri =
                    DictGet(schema_info[1].wikidata_to_ontology_property, ret.arg)

\* C22: an extract_mappings call without force_refresh returns the
\* mappings of the graph as it is at the call, also after the graph was
\* reloaded or a triple was added, never those of an earlier graph.
C22_ExtractReflectsCurrentGraph ==
    [][ (/\ extracted' # extracted \/ prev_extracted' # prev_extracted
         /\ ~extracted'.force)
            => extracted'.value = Some(SchemaInfo(ontology')) ]_vars

\* The last call was a call of the SHACL validator.
IsShaclCall == ret.op \in { "validate_rdf", "validate_json" }

\* The data of the last validate_rdf call cannot be parsed as RDF.
Unparsable == ret.op = "validate_rdf" /\ ParseRaises(ret.arg[1], format_map(ret.arg[2]))

\* The result reports one failure: it does not conform and holds exactly one
\* violation, of VIOLATION severity.
SingleViolation(r) ==
    /\ ~r.conforms
    /\ Len(r.violations) = 1
    /\ r.violations[1].severity = "Violation"

\* C21: validate_rdf and validate_json never raise: they return a result
\* for every input, and when the data cannot be parsed as RDF or the SHACL
\* engine raises, the result does not conform and holds exactly one
\* violation, of VIOLATION severity.
C21_ShaclNeverRaises ==
    IsShaclCall =>
        /\ ~ret.value.raised
        /\ (Unparsable \/ ret.engine.raised) => SingleViolation(ret.value)

\* The blank nodes reached from the subjects in from by at most fuel triples
\* whose object is a blank node.
RECURSIVE BNodesWithin(_, _, _)
BNodesWithin(graph, from, fuel) ==
    LET next == { t[3] : t \in { u \in graph : u[1] \in from /\ IsBNode(u[3]) } }
    IN  IF fuel = 0 THEN { }
        ELSE next \cup BNodesWithin(graph, next, fuel - 1)

\* The triples whose subject is a named shape or a blank node reachable
\* from one through a chain of blank-node objects.
ShapeClosure(graph, shape_names) ==
    LET targets == { ShapeUri(shape_names[i]) : i \in 1..Len(shape_names) }
        reached == BNodesWithin(graph, targets, Cardinality(graph))
    IN  { t \in graph : t[1] \in targets \/ t[1] \in reached }

\* C26: _filter_shapes terminates for every shapes graph, cyclic blank
\* nodes included, and returns exactly the triples whose subject is a named
\* target shape or a blank node reachable from one through blank-node
\* objects; the validator's shapes graph is left unchanged.
C26_FilterTerminatesWithClosure ==
    /\ [](Returned("_filter_shapes")
            => frame.filtered = ShapeClosure(shapes_graph, frame.shape_names))
    /\ [][shapes_graph' = shapes_graph]_vars
    /\ [](frame.op = "_filter_shapes" => <>Returned("_filter_shapes"))

\* A call on the cyclic shapes graph has returned the triples of both
\* blank nodes of the cycle.
C26_Witness ==
    /\ frame.op = "_filter_shapes"
    /\ frame.returned
    /\ shapes_graph = ShapesCyclic
    /\ << BNode("b1"), SH("node"), BNode("b2") >> \in frame.filtered
    /\ << BNode("b2"), SH("node"), BNode("b1") >> \in frame.filtered
    /\ << BNode("b4"), SH("node"), BNode("b1") >> \notin frame.filtered

\* The last call was a call of a caching operation, Redis answered it, and
\* an earlier call had stored a result under its key.
ServedFromStore ==
    /\ ret.op \in { "get_or_fetch", "search_books" }
    /\ ret.get_ok
    /\ ret.stored # None

\* The value the stored text stands for, as the operation returns it.
StoredValue ==
    IF ret.op = "search_books"
    THEN LET x == json_loads(ret.stored[1]) IN [ i \in 1..Len(x[2]) |-> BookFrom(x[2][i]) ]
    ELSE json_loads(ret.stored[1])

\* C29: once a search_books or get_or_fetch call has stored its result
\* under a cache key, a later call with the same arguments, Redis being
\* available and the entry not expired, returns the stored result without
\* running the fetch or the Wikidata query, whatever the stored value is
\* (an empty list as well as a non-empty one).
C29_StoredResultIsServed ==
    ServedFromStore => ~ret.fetched /\ ret.value = StoredValue

\* A response after which the claim lets the call try again.
RetryableResponse(response) == response \in { "429", "502", "503" }

\* The error a retryable response stands for.
RetryableError(response) ==
    IF response = "429" THEN "WikidataRateLimitError" ELSE "WikidataServiceError"

\* C27: execute_query makes at most 5 HTTP attempts per call; it tries
\* again only after a 429, 502 or 503 response, any other outcome of an
\* attempt ends the call after that attempt, and when the fifth attempt
\* fails with a retryable error that error is raised to the caller.
C27_AtMostFiveAttempts ==
    frame.op = "execute_query" =>
        LET n == Len(frame.responses)
        IN  /\ n <= 5
            /\ \A i \in 1..(n - 1) : RetryableResponse(frame.responses[i])
            /\ ~frame.returned => \A i \in 1..n : RetryableResponse(frame.responses[i])
            /\ frame.returned <=>
                   (n > 0 /\ (n = 5 \/ ~RetryableResponse(frame.responses[n])))
            /\ (frame.returned /\ RetryableResponse(frame.responses[n]))
                   => frame.outcome = RetryableError(frame.responses[n])

\* A call has ended with its fifth attempt rate limited, after four
\* attempts that met service errors.
C27_Witness ==
    /\ Returned("execute_query")
    /\ frame.responses = << "503", "502", "503", "502", "429" >>
    /\ frame.outcome = "WikidataRateLimitError"

EdgeTriple(e) == << e.source, e.target, e.type >>

\* The expansion of a get_author_network call goes on in both states of a
\* step.
Expanding == frame.op = "get_author_network" /\ frame'.op = "get_author_network"

\* The step processes a row of the results.
ProcessesRow ==
    /\ Expanding
    /\ ~frame.returned
    /\ frame.at = "rows"
    /\ Len(frame'.results) = Len(frame.results) - 1

\* The edge of the first row that is left, for a row with both identifiers.
RowTriple ==
    LET row == Head(frame.results)
    IN  << row.source, row.target, _map_edge_type(row.relationType) >>

\* C28: at every point of the multi-hop expansion the accumulated edge
\* list holds no two edges with the same (source, target, type); a row
\* whose triple already occurs adds no edge, and the edges keep the order
\* of their first occurrence.
C28_NoDuplicateEdges ==
    /\ [](frame.op = "get_author_network" =>
            \A i, j \in 1..Len(frame.all_edges) :
                EdgeTriple(frame.all_edges[i]) = EdgeTriple(frame.all_edges[j]) => i = j)
    /\ [][ProcessesRow =>
            /\ (\E i \in 1..Len(frame.all_edges) : EdgeTriple(frame.all_edges[i]) = RowTriple)
                   => frame'.all_edges = frame.all_edges
            /\ Len(frame'.all_edges) >= Len(frame.all_edges)
            /\ SubSeq(frame'.all_edges, 1, Len(frame.all_edges)) = frame.all_edges]_vars
    /\ [][(Expanding /\ ~frame.returned /\ ~ProcessesRow)
            => frame'.all_edges = frame.all_edges]_vars

\* The expansion has added two edges and meets a row whose triple the
\* list holds already, under another relation name.
C28_Witness ==
    /\ frame.op = "get_author_network"
    /\ ~frame.returned
    /\ frame.at = "rows"
    /\ frame.results = << Row(S_Q1, S_Q2, << "influenced" >>) >>
    /\ frame.all_edges = << GraphEdge(S_Q1, S_Q2, "influenced_by"),
                            GraphEdge(S_Q2, S_Q30, "student_of") >>

====
